---------------------------- MODULE Spec2Model ----------------------------
(***************************************************************************)
(* Netlist-to-graph conversion of aspector: the two NetlistToGraph         *)
(* parsers (web_app/backend and conversion_scripts) and the exchange       *)
(* format projection of graph_to_json.py.                                  *)
(*                                                                         *)
(* Text is modelled down to the character: a token is a sequence of        *)
(* one-character strings, a line is the sequence of its whitespace         *)
(* separated tokens (str.split()), and a file is the sequence of its       *)
(* lines, each terminated by a newline.  Floats are modelled as exact      *)
(* decimals [m |-> mantissa, e |-> power of ten], normalised.              *)
(*                                                                         *)
(* Scope of the text model: tokens are separated by single blanks and      *)
(* every line ends with a line break; the words subckt, ends and           *)
(* parameters are matched where a statement can carry them (the end of a   *)
(* token for the regular expressions, the start of the line for the        *)
(* startswith tests).  The rounding of binary floating point is not        *)
(* modelled: a product base * multiplier is the exact decimal.             *)
(*                                                                         *)
(* The two parsers share one model; the variable variant selects the code  *)
(* that differs (topology section, skipped sources, raw parameters,        *)
(* positional values and the exponent group exist in the web parser only). *)
(*                                                                         *)
(* The upload handler of server.py is modelled as one action on a request  *)
(* (file name, perf_specs payload, file content); json.loads is modelled   *)
(* as a recogniser of JSON texts without white space and escapes.          *)
(***************************************************************************)
EXTENDS Integers, Sequences, FiniteSets, TLC

VARIABLES
    variant,          \* "web": web_app/backend/net_to_graph.py, "conv": conversion_scripts/net_to_graph.py
    content,          \* the text of the netlist file: its lines
    nwrites,          \* number of statements/blocks written to the file
    pc,               \* position of the program
    params,           \* parse_file: params (global scope)
    subckts,          \* parse_file: subckts
    lines,            \* parse_file: lines (top_content.split('\n'))
    idx,              \* parse_file: position of the for loop in lines
    in_topology,      \* parse_file: in_topology (web only)
    flat_components,  \* parse_file: flat_components
    graph,            \* the graph returned by the latest parse_file
    prev_graph,       \* the graph returned by the parse_file before it
    projection,       \* the result of reconstruct_circuit(graph)
    call,             \* the arguments of a direct call of _parse_value / _parse_component_line
    ret               \* the value that call returned

vars == <<variant, content, nwrites, pc, params, subckts, lines, idx,
          in_topology, flat_components, graph, prev_graph, projection, call, ret>>

None == [none |-> TRUE]

-----------------------------------------------------------------------------
(* Characters and strings                                                  *)

\* The characters of the model in code point order (Python compares strings
\* by code point).
CharOrder ==
    << "!", "\"", "(", ")", "*", "+", ",", "-", ".",
       "0", "1", "2", "3", "4", "5", "6", "7", "8", "9", ":", "=",
       "A", "B", "C", "D", "E", "F", "G", "H", "I", "J", "K", "L", "M",
       "N", "O", "P", "Q", "R", "S", "T", "U", "V", "W", "X", "Y", "Z",
       "[", "]", "_",
       "a", "b", "c", "d", "e", "f", "g", "h", "i", "j", "k", "l", "m",
       "n", "o", "p", "q", "r", "s", "t", "u", "v", "w", "x", "y", "z",
       "{", "}" >>

Chars == {CharOrder[i] : i \in DOMAIN CharOrder}

Ord == [c \in Chars |-> CHOOSE i \in DOMAIN CharOrder : CharOrder[i] = c]

IsDigit(c) == Ord[c] >= Ord["0"] /\ Ord[c] <= Ord["9"]
IsUpper(c) == Ord[c] >= Ord["A"] /\ Ord[c] <= Ord["Z"]
IsLower(c) == Ord[c] >= Ord["a"] /\ Ord[c] <= Ord["z"]
IsLetter(c) == IsUpper(c) \/ IsLower(c)
\* \w
IsWord(c) == IsLetter(c) \/ IsDigit(c) \/ c = "_"
\* [\w\.\+-e]: a word character, a dot, or a character of the range '+'..'e'
InValueClass(c) == IsWord(c) \/ c = "." \/ (Ord[c] >= Ord["+"] /\ Ord[c] <= Ord["e"])

DigitVal(c) == Ord[c] - Ord["0"]
LowerChar(c) == IF IsUpper(c) THEN CharOrder[Ord[c] + (Ord["a"] - Ord["A"])] ELSE c
LowerStr(s) == [i \in DOMAIN s |-> LowerChar(s[i])]

StartsWith(s, p) == Len(s) >= Len(p) /\ SubSeq(s, 1, Len(p)) = p
EndsWith(s, p) == Len(s) >= Len(p) /\ SubSeq(s, Len(s) - Len(p) + 1, Len(s)) = p
\* p in s
Contains(s, p) == \E i \in 0..(Len(s) - Len(p)) : SubSeq(s, i + 1, i + Len(p)) = p
HasChar(s, c) == \E i \in DOMAIN s : s[i] = c
\* position of the first c in s, Len(s) + 1 when there is none
FirstPos(s, c) == IF HasChar(s, c) THEN CHOOSE i \in DOMAIN s : s[i] = c /\ \A j \in 1..(i - 1) : s[j] # c
                  ELSE Len(s) + 1

\* s < t for Python strings: lexicographic by code point
LexLess(s, t) ==
    \E k \in 0..Len(s) :
        /\ k <= Len(t)
        /\ \A j \in 1..k : s[j] = t[j]
        /\ \/ (k = Len(s) /\ k < Len(t))
           \/ (k < Len(s) /\ k < Len(t) /\ Ord[s[k + 1]] < Ord[t[k + 1]])

RECURSIVE SelectChars(_, _)
\* s without the characters of the set drop
SelectChars(s, drop) ==
    IF s = <<>> THEN <<>>
    ELSE IF Head(s) \in drop THEN SelectChars(Tail(s), drop)
    ELSE <<Head(s)>> \o SelectChars(Tail(s), drop)

\* length of the longest prefix of s whose characters satisfy the set ok
RECURSIVE SpanLen(_, _)
SpanLen(s, ok) == IF s = <<>> \/ Head(s) \notin ok THEN 0 ELSE 1 + SpanLen(Tail(s), ok)

Digits == {c \in Chars : IsDigit(c)}
Letters == {c \in Chars : IsLetter(c)}
WordChars == {c \in Chars : IsWord(c)}
ValueClass == {c \in Chars : InValueClass(c)}

-----------------------------------------------------------------------------
(* Floats as exact decimals                                                *)

RECURSIVE Normalise(_, _)
Normalise(m, e) ==
    IF m = 0 THEN [m |-> 0, e |-> 0]
    ELSE IF m % 10 = 0 THEN Normalise(m \div 10, e + 1)
    ELSE [m |-> m, e |-> e]

Zero == [m |-> 0, e |-> 0]
\* x * 10^k
Scale(x, k) == Normalise(x.m, x.e + k)
\* Python's `a or b` on floats
OrElse(a, b) == IF a.m # 0 THEN a ELSE b

RECURSIVE DigitsValue(_)
\* the integer written by a sequence of digits
DigitsValue(s) == IF s = <<>> THEN 0 ELSE 10 * DigitsValue(SubSeq(s, 1, Len(s) - 1)) + DigitVal(s[Len(s)])


RECURSIVE DigitsOf(_)
\* the decimal digits of a natural number (str(int))
DigitsOf(n) == IF n < 10 THEN <<CharOrder[Ord["0"] + n]>>
               ELSE DigitsOf(n \div 10) \o <<CharOrder[Ord["0"] + (n % 10)]>>

Repeat(c, n) == [i \in 1..n |-> c]
Abs(n) == IF n < 0 THEN 0 - n ELSE n

\* the exponent part of repr's scientific notation: e-09, e+16
ExpoStr(X) ==
    <<"e">> \o (IF X < 0 THEN <<"-">> ELSE <<"+">>)
    \o (IF Abs(X) < 10 THEN <<"0">> ELSE <<>>) \o DigitsOf(Abs(X))

\* the digits ds of a float with decimal exponent e, written in fixed notation
FixedStr(ds, e) ==
    IF e >= 0 THEN ds \o Repeat("0", e) \o <<".", "0">>
    ELSE IF Len(ds) + e > 0
        THEN SubSeq(ds, 1, Len(ds) + e) \o <<".">> \o SubSeq(ds, Len(ds) + e + 1, Len(ds))
    ELSE <<"0", ".">> \o Repeat("0", 0 - (Len(ds) + e)) \o ds

\* the digits ds of a float written in scientific notation, X the exponent
SciStr(ds, X) ==
    <<ds[1]>> \o (IF Len(ds) > 1 THEN <<".">> \o SubSeq(ds, 2, Len(ds)) ELSE <<>>) \o ExpoStr(X)

\* the unsigned repr of the float with digits ds and decimal exponent e
ReprOf(ds, e) ==
    IF Len(ds) + e - 1 < -4 \/ Len(ds) + e - 1 >= 16 THEN SciStr(ds, Len(ds) + e - 1)
    ELSE FixedStr(ds, e)

\* str(x) of a float x: repr's shortest form, fixed notation when the decimal
\* exponent is in -4..15 and scientific notation otherwise
FloatStr(x) ==
    IF x.m = 0 THEN <<"0", ".", "0">>
    ELSE (IF x.m < 0 THEN <<"-">> ELSE <<>>) \o ReprOf(DigitsOf(Abs(x.m)), x.e)

-----------------------------------------------------------------------------
(* NetlistToGraph.__init__: the lookup tables                              *)

Str(s) == [kind |-> "str", s |-> s]
Num(x) == [kind |-> "num", x |-> x]

T_nfet == <<"n", "f", "e", "t">>
T_pfet == <<"p", "f", "e", "t">>
T_resistor == <<"r", "e", "s", "i", "s", "t", "o", "r">>
T_capacitor == <<"c", "a", "p", "a", "c", "i", "t", "o", "r">>
T_vsource == <<"v", "s", "o", "u", "r", "c", "e">>
T_isource == <<"i", "s", "o", "u", "r", "c", "e">>
T_vcvs == <<"v", "c", "v", "s">>

\* self.comp_type_map
comp_type_map ==
    [t \in {T_nfet, T_pfet, T_resistor, T_capacitor, T_vsource, T_isource, T_vcvs} |->
        CASE t = T_nfet -> 0 [] t = T_pfet -> 1 [] t = T_resistor -> 2
          [] t = T_capacitor -> 3 [] t = T_vsource -> 4 [] t = T_isource -> 5
          [] t = T_vcvs -> 6]

\* self.term_map
term_map ==
    [t \in {"D", "G", "S", "B", "P", "N", "pos", "neg", "ctrl_pos", "ctrl_neg"} |->
        CASE t = "D" -> 0 [] t = "G" -> 1 [] t = "S" -> 2 [] t = "B" -> 3
          [] t = "P" -> 4 [] t = "N" -> 5 [] t = "pos" -> 6 [] t = "neg" -> 7
          [] t = "ctrl_pos" -> 8 [] t = "ctrl_neg" -> 9]

\* self.suffixes, each multiplier as its power of ten
suffixes ==
    [c \in {"f", "p", "n", "u", "m", "k", "M", "G", "T"} |->
        CASE c = "f" -> -15 [] c = "p" -> -12 [] c = "n" -> -9 [] c = "u" -> -6
          [] c = "m" -> -3 [] c = "k" -> 3 [] c = "M" -> 6 [] c = "G" -> 9
          [] c = "T" -> 12]

\* a scope (dict of name -> float) with no entry
EmptyScope == [k \in {} |-> Zero]

-----------------------------------------------------------------------------
(* NetlistToGraph._parse_value                                             *)

\* the value of the exponent group [eE][-+]?\d+, 0 for the empty group
ExpoValue(expo) ==
    IF expo = <<>> THEN 0
    ELSE IF expo[2] = "-" THEN 0 - DigitsValue(SubSeq(expo, 3, Len(expo)))
    ELSE IF expo[2] = "+" THEN DigitsValue(SubSeq(expo, 3, Len(expo)))
    ELSE DigitsValue(SubSeq(expo, 2, Len(expo)))

\* number of digits after the dot of body
FracLen(body) == IF HasChar(body, ".") THEN Len(body) - FirstPos(body, ".") ELSE 0

\* the float with the digits digs, frac of them after the dot, times 10^ev;
\* None stands for ValueError (no digit, or more than one dot)
FloatOfDigits(negative, digs, ndots, frac, ev) ==
    IF digs = <<>> \/ ndots > 1 THEN None
    ELSE Normalise(IF negative THEN 0 - DigitsValue(digs) ELSE DigitsValue(digs), ev - frac)

\* float(num) for num = sign body expo matching [-+]?[\d\.]+(?:[eE][-+]?\d+)?
FloatOf(sign, body, expo) ==
    FloatOfDigits(sign = <<"-">>, SelectChars(body, {"."}),
                  Len(body) - Len(SelectChars(body, {"."})), FracLen(body), ExpoValue(expo))

\* SuffixScale with an unrecognised suffix making the value 0.0
SuffixScale_ZeroUnknown(base, suffix) ==
    IF suffix = <<>> THEN base
    ELSE IF Len(suffix) = 1 /\ suffix[1] \in DOMAIN suffixes THEN Scale(base, suffixes[suffix[1]])
    ELSE Zero

\* base * self.suffixes[suffix] if suffix and suffix in self.suffixes, else base
SuffixScale(base, suffix) ==
    IF Len(suffix) = 1 /\ suffix[1] \in DOMAIN suffixes
    THEN Scale(base, suffixes[suffix[1]])
    ELSE base

\* s without its first n characters
DropN(s, n) == SubSeq(s, n + 1, Len(s))

\* length of the match of [-+]? at the start of s
SignLen(s) == IF s # <<>> /\ s[1] \in {"+", "-"} THEN 1 ELSE 0

\* length of the match of (?:[eE][-+]?\d+)? at the start of r, given the
\* number of digits nd that follow the e and its sign; the conversion_scripts
\* parser has no exponent group
ExpoLenOf(esign, nd, v) == IF v = "web" /\ nd > 0 THEN 1 + esign + nd ELSE 0
ExpoLenSigned(r, esign, v) == ExpoLenOf(esign, SpanLen(DropN(r, 1 + esign), Digits), v)
ExpoLen(r, v) ==
    IF r # <<>> /\ r[1] \in {"e", "E"} THEN ExpoLenSigned(r, SignLen(DropN(r, 1)), v) ELSE 0

\* the group ([a-zA-Z]*) at the start of r
LetterRun(r) == SubSeq(r, 1, SpanLen(r, Letters))

\* try: base = float(num) ... except ValueError: return 0.0
ApplySuffix(base, suffix) == IF base = None THEN Zero ELSE SuffixScale(base, suffix)

\* the groups of a match: sign of length ns, body of length nb, exponent of
\* length nx, then the letters
MatchGroups(s, ns, nb, nx) ==
    ApplySuffix(FloatOf(SubSeq(s, 1, ns), SubSeq(s, ns + 1, ns + nb),
                        SubSeq(s, ns + nb + 1, ns + nb + nx)),
                LetterRun(DropN(s, ns + nb + nx)))

\* no match (return 0.0) when [\d\.]+ matches nothing
MatchBody(s, ns, nb, v) ==
    IF nb = 0 THEN Zero ELSE MatchGroups(s, ns, nb, ExpoLen(DropN(s, ns + nb), v))

MatchSigned(s, ns, v) == MatchBody(s, ns, SpanLen(DropN(s, ns), Digits \cup {"."}), v)

\* the regular expression of _parse_value applied with re.match to s, then the
\* float conversion; v is the variant ("web" has the exponent group)
MatchNumber(s, v) == MatchSigned(s, SignLen(s), v)

\* Resolve with the scope consulted only when the token is no number
Resolve_NumberFirst(s, scope, v) ==
    IF s \in DOMAIN scope /\ MatchNumber(s, v) = Zero THEN scope[s] ELSE MatchNumber(s, v)

\* if params and val_str in params: return params[val_str]; else the number
Resolve(s, scope, v) == IF s \in DOMAIN scope THEN scope[s] ELSE MatchNumber(s, v)

\* _parse_value(val_str, params): val is Str(token), or Num(x) for a number
\* passed in place of a string (the default 0 of dict.get, a positional float)
parse_value(val, scope, v) ==
    IF val.kind = "num" /\ val.x.m = 0 THEN Zero
    ELSE IF val.kind = "str" /\ val.s = <<>> THEN Zero
    ELSE Resolve(IF val.kind = "num" THEN FloatStr(val.x) ELSE val.s, scope, v)

-----------------------------------------------------------------------------
(* NetlistToGraph._parse_component_line                                    *)

W_top == <<"t", "o", "p">>
K_r == <<"r">>
K_nR == <<"n", "R">>

RECURSIVE CutComment(_)
\* line.split('*')[0].strip().split(): the tokens before the first '*'
CutComment(toks) ==
    IF toks = <<>> THEN <<>>
    ELSE IF HasChar(Head(toks), "*")
        THEN LET keep == SubSeq(Head(toks), 1, FirstPos(Head(toks), "*") - 1)
             IN  IF keep = <<>> THEN <<>> ELSE <<keep>>
    ELSE <<Head(toks)>> \o CutComment(Tail(toks))

\* f"{prefix}_{comp_name}" unless the prefix is empty or "top"
QualifiedName(prefix, name) ==
    IF prefix # <<>> /\ prefix # W_top THEN prefix \o <<"_">> \o name ELSE name

\* index of the first token that is a key of comp_type_map, 0 when none is
TypeIndex(parts) ==
    IF \E i \in DOMAIN parts : parts[i] \in DOMAIN comp_type_map
    THEN CHOOSE i \in DOMAIN parts :
            /\ parts[i] \in DOMAIN comp_type_map
            /\ \A j \in 1..(i - 1) : parts[j] \notin DOMAIN comp_type_map
    ELSE 0

RECURSIVE NetTokens(_)
\* " ".join(...).replace('(', '').replace(')', '').strip().split()
NetTokens(toks) ==
    IF toks = <<>> THEN <<>>
    ELSE LET t == SelectChars(Head(toks), {"(", ")"})
         IN  (IF t = <<>> THEN <<>> ELSE <<t>>) \o NetTokens(Tail(toks))

\* MapNet with the port map ignored
MapNet_Verbatim(port_map, n) == n

\* port_map.get(n, n)
MapNet(port_map, n) == IF n \in DOMAIN port_map THEN port_map[n] ELSE n

\* re.match(r'^[a-zA-Z_]\w*=', token)
IsKeyStart(token) ==
    LET p == FirstPos(token, "=")
    IN  /\ p <= Len(token)
        /\ p >= 2
        /\ ~IsDigit(token[1])
        /\ \A j \in 1..(p - 1) : IsWord(token[j])

\* d with d[k] = x
Put(d, k, x) == [y \in DOMAIN d \cup {k} |-> IF y = k THEN x ELSE d[y]]
EmptyDict == [k \in {} |-> <<>>]

RECURSIVE RawParams(_, _, _, _)
\* the loop building raw_params: each value is the sequence of the tokens
\* that " ".join puts together; key = <<>> stands for current_key = None
RawParams(tokens, raw, key, vals) ==
    IF tokens = <<>> THEN (IF key # <<>> THEN Put(raw, key, vals) ELSE raw)
    ELSE LET token == Head(tokens)
             p == FirstPos(token, "=")
             v == SubSeq(token, p + 1, Len(token))
         IN  IF IsKeyStart(token)
             THEN RawParams(Tail(tokens),
                            IF key # <<>> THEN Put(raw, key, vals) ELSE raw,
                            SubSeq(token, 1, p - 1),
                            IF v # <<>> THEN <<v>> ELSE <<>>)
             ELSE RawParams(Tail(tokens), raw, key,
                            IF key # <<>> THEN Append(vals, token) ELSE vals)

\* re.match(r'^([\w\.\+-e]+)$', v) for v = " ".join(vals)
IsSimpleValue(vals) ==
    Len(vals) = 1 /\ vals[1] # <<>> /\ \A j \in DOMAIN vals[1] : InValueClass(vals[1][j])

\* comp_params of the web parser: the raw values that are one simple token
SimpleParams(raw) ==
    [k \in {k \in DOMAIN raw : IsSimpleValue(raw[k])} |-> Str(raw[k][1])]

\* whether an assignment (\w+)=([\w\.\+-e]+) ends its key at position p of s
IsAssignAt(s, p) ==
    /\ s[p] = "="
    /\ p >= 2 /\ IsWord(s[p - 1])
    /\ p < Len(s) /\ InValueClass(s[p + 1])

RECURSIVE WordRunStart(_, _)
\* first position of the run of word characters that ends at position q of s
WordRunStart(s, q) == IF q > 1 /\ IsWord(s[q - 1]) THEN WordRunStart(s, q - 1) ELSE q

\* position of the '=' of the leftmost assignment in s, 0 when there is none
FirstAssign(s) ==
    IF \E p \in DOMAIN s : IsAssignAt(s, p)
    THEN CHOOSE p \in DOMAIN s : IsAssignAt(s, p) /\ \A j \in 1..(p - 1) : ~IsAssignAt(s, j)
    ELSE 0

RECURSIVE FindAssignments(_)
\* the match with its '=' at p and a value of n characters, then the matches
\* in the rest of s
AssignmentAt(s, p, n) ==
    << <<SubSeq(s, WordRunStart(s, p - 1), p - 1), SubSeq(s, p + 1, p + n)>> >>
    \o FindAssignments(DropN(s, p + n))

AssignmentsFrom(s, p) ==
    IF p = 0 THEN <<>> ELSE AssignmentAt(s, p, SpanLen(DropN(s, p), ValueClass))

\* re.findall(r'(\w+)=([\w\.\+-e]+)', s) within one token s: <<key, value>> pairs
FindAssignments(s) == AssignmentsFrom(s, FirstAssign(s))

RECURSIVE AssignmentsOf(_)
\* re.findall over the tokens of a line (no match spans a blank)
AssignmentsOf(toks) ==
    IF toks = <<>> THEN <<>> ELSE FindAssignments(Head(toks)) \o AssignmentsOf(Tail(toks))

RECURSIVE DictOfPairs(_, _)
\* dict(pairs) on top of d: a later pair replaces an earlier one with its key
DictOfPairs(pairs, d) ==
    IF pairs = <<>> THEN d
    ELSE DictOfPairs(Tail(pairs), Put(d, Head(pairs)[1], Head(pairs)[2]))

\* a dict of tokens as a dict of the strings _parse_value is given
StrValues(d) == [k \in DOMAIN d |-> Str(d[k])]

\* comp_params of the conversion_scripts parser
FoundParams(toks) == StrValues(DictOfPairs(AssignmentsOf(toks), EmptyDict))

\* if val > 0: return val
FirstPositive(val, rest) == IF val.m > 0 THEN val ELSE rest

RECURSIVE find_positional_val(_, _, _)
\* find_positional_val over parts[type_idx+1:]
find_positional_val(toks, scope, v) ==
    IF toks = <<>> THEN Zero
    ELSE IF HasChar(Head(toks), "=") THEN find_positional_val(Tail(toks), scope, v)
    ELSE FirstPositive(parse_value(Str(Head(toks)), scope, v),
                       find_positional_val(Tail(toks), scope, v))

\* if pos_val > 0: comp_params[key] = pos_val
PutIfPositive(cp, key, pos_val) == IF pos_val.m > 0 THEN Put(cp, key, Num(pos_val)) ELSE cp

\* comp_params after the positional fallback for key (r of a resistor, c of a
\* capacitor) with alternative name alt (nR, nC)
WithPositional(cp, is_type, key, alt, toks, scope, v) ==
    IF is_type /\ key \notin DOMAIN cp /\ alt \notin DOMAIN cp
    THEN PutIfPositive(cp, key, find_positional_val(toks, scope, v))
    ELSE cp

\* d.get(k, default)
GetOr(d, k, default) == IF k \in DOMAIN d THEN d[k] ELSE default

\* comp_params.get(k, 0)
GetParam(cp, k) == GetOr(cp, k, Num(Zero))

\* self._parse_value(comp_params.get(a, 0), params) or self._parse_value(comp_params.get(b, 0), params)
FallbackChain(cp, a, b, scope, v) ==
    OrElse(parse_value(GetParam(cp, a), scope, v), parse_value(GetParam(cp, b), scope, v))

\* the positional terminal names of a type
TerminalNames(type) ==
    IF type \in {T_nfet, T_pfet} THEN <<"D", "G", "S", "B">>
    ELSE IF type \in {T_resistor, T_capacitor} THEN <<"P", "N">>
    ELSE IF type \in {T_vsource, T_isource} THEN <<"pos", "neg">>
    ELSE IF type = T_vcvs THEN <<"pos", "neg", "ctrl_pos", "ctrl_neg">>
    ELSE <<>>

\* a terminal for every role, the last net repeated for the missing ones
Terminals_Padded(t_names, mapped_nets) ==
    [i \in 1..(IF mapped_nets = <<>> THEN 0 ELSE Len(t_names)) |->
        [name |-> t_names[i],
         net |-> mapped_nets[IF i < Len(mapped_nets) THEN i ELSE Len(mapped_nets)]]]

\* for i, tn in enumerate(t_names): if i < len(mapped_nets): terminals.append(...)
Terminals(t_names, mapped_nets) ==
    [i \in 1..(IF Len(t_names) < Len(mapped_nets) THEN Len(t_names) ELSE Len(mapped_nets)) |->
        [name |-> t_names[i], net |-> mapped_nets[i]]]

\* the component names for which a vsource keeps the name of its dc parameter
IsDcNamed(comp_name) ==
    \/ comp_name \in {<<"V", "0">>, <<"V", "1">>, <<"V", "N">>, <<"V", "P", "2">>, <<"V", "N", "2">>}
    \/ StartsWith(comp_name, <<"V", "_", "V">>)

RECURSIVE DcParamName(_)
\* re.search(r'dc=(\w+)', comp_params_str) within one token, <<>> when none
DcParamName(s) ==
    IF Len(s) < 4 THEN <<>>
    ELSE IF SubSeq(s, 1, 3) = <<"d", "c", "=">> /\ IsWord(s[4])
        THEN SubSeq(s, 4, 3 + SpanLen(SubSeq(s, 4, Len(s)), WordChars))
    ELSE DcParamName(Tail(s))

RECURSIVE FirstDcParamName(_)
FirstDcParamName(toks) ==
    IF toks = <<>> THEN <<>>
    ELSE IF DcParamName(Head(toks)) # <<>> THEN DcParamName(Head(toks))
    ELSE FirstDcParamName(Tail(toks))

\* comp_params: the simple raw values and the positional fallbacks (web
\* parser), or the assignments found in the parameter text
CompParams(type, ptoks, scope, v) ==
    IF v = "web"
    THEN WithPositional(
             WithPositional(SimpleParams(RawParams(ptoks, EmptyDict, <<>>, <<>>)),
                            type = T_resistor, K_r, K_nR, ptoks, scope, v),
             type = T_capacitor, <<"c">>, <<"n", "C">>, ptoks, scope, v)
    ELSE FoundParams(ptoks)

\* param_name of the dc special case, <<>> when the case does not apply
DcName(comp_name, type, ptoks) ==
    IF IsDcNamed(comp_name) /\ type = T_vsource THEN FirstDcParamName(ptoks) ELSE <<>>

\* sizing['dc'] after the dc special case: params.get(param_name, sizing['dc'])
DcValue(dc0, dcn, scope) == IF dcn # <<>> /\ dcn \in DOMAIN scope THEN scope[dcn] ELSE dc0

\* the sizing dict built from comp_params; params_raw is attached by the web
\* parser only
SizingOf(cp, dcn, raw, scope, v) ==
    [l |-> parse_value(GetParam(cp, <<"l">>), scope, v),
     nfin |-> FallbackChain(cp, <<"n", "f", "i", "n">>, <<"w">>, scope, v),
     r |-> FallbackChain(cp, K_nR, K_r, scope, v),
     c |-> FallbackChain(cp, <<"n", "C">>, <<"c">>, scope, v),
     dc |-> DcValue(parse_value(GetParam(cp, <<"d", "c">>), scope, v), dcn, scope),
     dc_param_name |-> dcn,
     has_params_raw |-> (v = "web"),
     params_raw |-> raw]

\* the sizing dict of a component
Sizing(comp_name, type, ptoks, scope, v) ==
    SizingOf(CompParams(type, ptoks, scope, v),
             DcName(comp_name, type, ptoks),
             IF v = "web" THEN RawParams(ptoks, EmptyDict, <<>>, <<>>) ELSE EmptyDict,
             scope, v)

\* a parser that drops no statement that has a type keyword
IsSkippedType_NoSources(parts, v) == TypeIndex(parts) = 0

\* whether the statement is dropped because of its type: no type keyword, or
\* (web parser) a source
IsSkippedType(parts, v) ==
    \/ TypeIndex(parts) = 0
    \/ v = "web" /\ parts[TypeIndex(parts)] \in {T_vsource, T_isource, T_vcvs}

\* _parse_component_line(line, port_map, params, prefix); None for None
parse_component_line(line, port_map, scope, prefix, v) ==
    LET parts == CutComment(line)
        type_idx == TypeIndex(parts)
    IN  IF parts = <<>> THEN None
        ELSE IF IsSkippedType(parts, v) THEN None
        ELSE LET comp_name == QualifiedName(prefix, parts[1])
                 type_found == parts[type_idx]
                 nets_list == NetTokens(SubSeq(parts, 2, type_idx - 1))
                 mapped_nets == [i \in DOMAIN nets_list |-> MapNet(port_map, nets_list[i])]
                 ptoks == SubSeq(parts, type_idx + 1, Len(parts))
             IN  [name |-> comp_name,
                  type |-> type_found,
                  terminals |-> Terminals(TerminalNames(type_found), mapped_nets),
                  params |-> Sizing(comp_name, type_found, ptoks, scope, v)]

-----------------------------------------------------------------------------
(* NetlistToGraph.parse_file                                               *)

W_parameters == <<"p", "a", "r", "a", "m", "e", "t", "e", "r", "s">>
W_subckt == <<"s", "u", "b", "c", "k", "t">>
W_ends == <<"e", "n", "d", "s">>
W_TOPOLOGY == <<"T", "O", "P", "O", "L", "O", "G", "Y">>
W_TESTBENCH == <<"T", "E", "S", "T", "B", "E", "N", "C", "H">>
W_open == <<"*", "-", "-", "-">>
W_close == <<"-", "-", "-", "*">>

\* index of the first token of line after which r'parameters\s+' has matched
\* (the word ends the token), 0 when there is none
ParametersAt(line) ==
    IF \E j \in DOMAIN line : EndsWith(line[j], W_parameters)
    THEN CHOOSE j \in DOMAIN line :
            /\ EndsWith(line[j], W_parameters)
            /\ \A i \in 1..(j - 1) : ~EndsWith(line[i], W_parameters)
    ELSE 0

RECURSIVE DropBlank(_)
DropBlank(ls) == IF ls # <<>> /\ Head(ls) = <<>> THEN DropBlank(Tail(ls)) ELSE ls

RECURSIVE ParamMatches(_)
\* re.findall(r'parameters\s+(.*)', content): the rest of the line after each
\* 'parameters'; when the word ends its line, \s+ runs over the line break and
\* the match is the next line that is not blank
ParamMatches(ls) ==
    IF ls = <<>> THEN <<>>
    ELSE LET line == Head(ls)
             j == ParametersAt(line)
             rest == DropBlank(Tail(ls))
         IN  IF j = 0 THEN ParamMatches(Tail(ls))
             ELSE IF j < Len(line) THEN <<SubSeq(line, j + 1, Len(line))>> \o ParamMatches(Tail(ls))
             ELSE IF rest = <<>> THEN << <<>> >>
             ELSE <<Head(rest)>> \o ParamMatches(Tail(rest))

RECURSIVE ParamsOfPairs(_, _, _)
\* for k, v in parts: params[k] = self._parse_value(v)   (no scope is passed)
ParamsOfPairs(pairs, d, v) ==
    IF pairs = <<>> THEN d
    ELSE ParamsOfPairs(Tail(pairs),
                       Put(d, Head(pairs)[1], parse_value(Str(Head(pairs)[2]), EmptyScope, v)), v)

RECURSIVE ParamsOfLines(_, _, _)
ParamsOfLines(p_lines, d, v) ==
    IF p_lines = <<>> THEN d
    ELSE ParamsOfLines(Tail(p_lines), ParamsOfPairs(AssignmentsOf(Head(p_lines)), d, v), v)

\* the params dict of parse_file
ExtractParams(text, v) == ParamsOfLines(ParamMatches(text), EmptyScope, v)

\* whether line i of text can open a match of
\* r'subckt\s+(\w+)\s+(.*?)\n(.*?)\nends\s+\1': 'subckt', a name of word
\* characters, and the ports on the same line
IsSubcktHead(line) ==
    /\ Len(line) >= 3
    /\ EndsWith(line[1], W_subckt)
    /\ \A j \in DOMAIN line[2] : IsWord(line[2][j])

\* whether line closes the definition of name: r'\nends\s+\1'
IsEndsOf(line, name) ==
    Len(line) >= 2 /\ line[1] = W_ends /\ StartsWith(line[2], name)

\* the line of the first r'\nends\s+\1' that leaves a body line after line i, 0 when none
EndsLine(text, i, name) ==
    IF \E j \in (i + 2)..Len(text) : IsEndsOf(text[j], name)
    THEN CHOOSE j \in (i + 2)..Len(text) :
            IsEndsOf(text[j], name) /\ \A k \in (i + 2)..(j - 1) : ~IsEndsOf(text[k], name)
    ELSE 0

RECURSIVE ExtractSubckts(_, _, _)
\* the subckts dict: re.finditer from line i on, a later definition of a name
\* replacing an earlier one
ExtractSubckts(text, i, d) ==
    IF i > Len(text) THEN d
    ELSE IF ~IsSubcktHead(text[i]) THEN ExtractSubckts(text, i + 1, d)
    ELSE LET name == text[i][2]
             j == EndsLine(text, i, name)
         IN  IF j = 0 THEN ExtractSubckts(text, i + 1, d)
             ELSE ExtractSubckts(text, j + 1,
                     Put(d, name, [ports |-> SubSeq(text[i], 3, Len(text[i])),
                                   body |-> SubSeq(text, i + 1, j - 1)]))

\* the first line after line i that starts with 'ends' (r'\nends'), 0 when none
CloseLine(text, i) ==
    IF \E j \in (i + 1)..Len(text) : text[j] # <<>> /\ StartsWith(text[j][1], W_ends)
    THEN CHOOSE j \in (i + 1)..Len(text) :
            /\ text[j] # <<>> /\ StartsWith(text[j][1], W_ends)
            /\ \A k \in (i + 1)..(j - 1) : ~(text[k] # <<>> /\ StartsWith(text[k][1], W_ends))
    ELSE 0

RECURSIVE TopContent(_, _)
\* re.sub(r'subckt.*?\nends.*?\n', '', content): the lines from one that
\* starts with 'subckt' to the next that starts with 'ends' are removed
TopContent(text, i) ==
    IF i > Len(text) THEN <<>>
    ELSE IF text[i] # <<>> /\ StartsWith(text[i][1], W_subckt) /\ CloseLine(text, i) # 0
        THEN TopContent(text, CloseLine(text, i) + 1)
    ELSE <<text[i]>> \o TopContent(text, i + 1)

\* top_content.split('\n'): the text ends with a line break, so the last
\* element is the empty string
TopLines(text) == TopContent(text, 1) \o << <<>> >>

\* '*--- <word> ---*' in line
HasMarker(line, word) ==
    \E j \in 1..(Len(line) - 2) :
        EndsWith(line[j], W_open) /\ line[j + 1] = word /\ StartsWith(line[j + 2], W_close)

\* the lines the dispatch skips: blank, comment and directive lines
IsIgnoredLine(line) ==
    \/ line = <<>>
    \/ StartsWith(line[1], <<"*">>)
    \/ StartsWith(line[1], <<"s", "i", "m", "u", "l", "a", "t", "o", "r">>)
    \/ StartsWith(line[1], <<"g", "l", "o", "b", "a", "l">>)
    \/ StartsWith(line[1], W_parameters)
    \/ StartsWith(line[1], <<"i", "n", "c", "l", "u", "d", "e">>)

RECURSIVE Zip(_, _, _)
\* dict(zip(ports, inst_ports))
Zip(ports, inst_ports, d) ==
    IF ports = <<>> \/ inst_ports = <<>> THEN d
    ELSE Zip(Tail(ports), Tail(inst_ports), Put(d, Head(ports), Head(inst_ports)))

\* if comp: flat_components.append(comp)
Emit(comp) == IF comp = None THEN <<>> ELSE <<comp>>

RECURSIVE ExpandBody_EmitInstances(_, _, _, _, _)
\* an expansion that emits a component for an instantiation line of the body
ExpandBody_EmitInstances(body, port_map, scope, inst_name, v) ==
    IF body = <<>> THEN <<>>
    ELSE (IF StartsWith(Head(body)[1], <<"x">>)
          THEN <<[name |-> QualifiedName(inst_name, Head(body)[1]), type |-> T_nfet,
                  terminals |-> <<>>, params |-> EmptyDict]>>
          ELSE Emit(parse_component_line(Head(body), port_map, scope, inst_name, v)))
         \o ExpandBody_EmitInstances(Tail(body), port_map, scope, inst_name, v)

RECURSIVE ExpandBody_QualifiedNets(_, _, _, _, _)
\* an expansion that qualifies the names the port map does not bind with the
\* instance name, as it does the component names
ExpandBody_QualifiedNets(body, port_map, scope, inst_name, v) ==
    IF body = <<>> THEN <<>>
    ELSE (IF \/ Head(body) = <<>>
             \/ StartsWith(Head(body)[1], <<"*">>)
             \/ StartsWith(Head(body)[1], <<".">>)
          THEN <<>>
          ELSE Emit(parse_component_line(
                        Head(body),
                        [n \in DOMAIN port_map \cup {Head(body)[k] : k \in DOMAIN Head(body)} |->
                            IF n \in DOMAIN port_map THEN port_map[n]
                            ELSE QualifiedName(inst_name, n)],
                        scope, inst_name, v)))
         \o ExpandBody_QualifiedNets(Tail(body), port_map, scope, inst_name, v)

RECURSIVE ExpandBody(_, _, _, _, _)
\* the loop over sub['body'].split('\n') of one instantiation
ExpandBody(body, port_map, scope, inst_name, v) ==
    IF body = <<>> THEN <<>>
    ELSE (IF \/ Head(body) = <<>>
             \/ StartsWith(Head(body)[1], <<"*">>)
             \/ StartsWith(Head(body)[1], <<".">>)
          THEN <<>>
          ELSE Emit(parse_component_line(Head(body), port_map, scope, inst_name, v)))
         \o ExpandBody(Tail(body), port_map, scope, inst_name, v)

\* a dispatch that parses the instantiation of an unknown subcircuit as a
\* statement of its own
Dispatch_ParseUnknown(line, defs, scope, v) ==
    IF StartsWith(line[1], <<"x">>) /\ Len(line) >= 3 /\ line[Len(line)] \in DOMAIN defs
    THEN ExpandBody(defs[line[Len(line)]].body,
                    Zip(defs[line[Len(line)]].ports, SubSeq(line, 2, Len(line) - 1), EmptyDict),
                    scope, line[1], v)
    ELSE <<[name |-> line[1], type |-> T_resistor, terminals |-> <<>>, params |-> EmptyDict]>>

\* the components one top-level statement adds to flat_components
Dispatch(line, defs, scope, v) ==
    IF StartsWith(line[1], <<"x">>)
    THEN IF Len(line) < 3 THEN <<>>
         ELSE IF line[Len(line)] \in DOMAIN defs
            THEN ExpandBody(defs[line[Len(line)]].body,
                            Zip(defs[line[Len(line)]].ports, SubSeq(line, 2, Len(line) - 1), EmptyDict),
                            scope, line[1], v)
         ELSE <<>>
    ELSE Emit(parse_component_line(line, EmptyDict, scope, W_top, v))

\* a loop that dispatches every line, whatever section it lies in
LoopBody_NoSection(line, in_topo, defs, scope, v) ==
    IF IsIgnoredLine(line) THEN [in_topology |-> in_topo, comps |-> <<>>]
    ELSE [in_topology |-> in_topo, comps |-> Dispatch(line, defs, scope, v)]

\* one iteration of `for line in lines`: the new in_topology and the
\* components appended.  The topology section exists in the web parser only.
LoopBody(line, in_topo, defs, scope, v) ==
    IF v = "web" /\ HasMarker(line, W_TOPOLOGY) THEN [in_topology |-> TRUE, comps |-> <<>>]
    ELSE IF v = "web" /\ HasMarker(line, W_TESTBENCH) THEN [in_topology |-> FALSE, comps |-> <<>>]
    ELSE IF v = "web" /\ ~in_topo THEN [in_topology |-> in_topo, comps |-> <<>>]
    ELSE IF IsIgnoredLine(line) THEN [in_topology |-> in_topo, comps |-> <<>>]
    ELSE [in_topology |-> in_topo, comps |-> Dispatch(line, defs, scope, v)]

-----------------------------------------------------------------------------
(* NetlistToGraph._build_hetero_data                                       *)

\* number of hash seeds the model distinguishes, beyond seed 0
MaxSeed == 1

RECURSIVE SumSeq(_)
SumSeq(q) == IF q = <<>> THEN 0 ELSE Head(q) + SumSeq(Tail(q))

\* hash(s) under a hash seed (PYTHONHASHSEED), as a slot of a table of 8
StrHash(s, seed) == SumSeq([i \in DOMAIN s |-> Ord[s[i]] * (seed + i)]) % 8

\* iteration order of a set of strings: by slot, strings of one slot in some
\* fixed order
IterBefore(a, b, seed) ==
    \/ StrHash(a, seed) < StrHash(b, seed)
    \/ StrHash(a, seed) = StrHash(b, seed) /\ (IF seed % 2 = 0 THEN LexLess(a, b) ELSE LexLess(b, a))

RECURSIVE ListOfSet(_, _)
\* list(S) for a set S of strings
ListOfSet(S, seed) ==
    IF S = {} THEN <<>>
    ELSE LET a == CHOOSE a \in S : \A b \in S \ {a} : IterBefore(a, b, seed)
         IN  <<a>> \o ListOfSet(S \ {a}, seed)

RECURSIVE Insert(_, _)
Insert(sorted, x) ==
    IF sorted = <<>> THEN <<x>>
    ELSE IF LexLess(x, Head(sorted)) THEN <<x>> \o sorted
    ELSE <<Head(sorted)>> \o Insert(Tail(sorted), x)

\* Sorted in descending order
Sorted_Descending(lst) ==
    LET RECURSIVE Desc(_)
        Desc(q) == IF q = <<>> THEN <<>>
                   ELSE LET mx == CHOOSE i \in DOMAIN q : \A j \in DOMAIN q : ~LexLess(q[i], q[j])
                        IN  <<q[mx]>> \o Desc(SubSeq(q, 1, mx - 1) \o SubSeq(q, mx + 1, Len(q)))
    IN  Desc(lst)

RECURSIVE Sorted(_)
\* sorted(lst) for a list of strings
Sorted(lst) == IF lst = <<>> THEN <<>> ELSE Insert(Sorted(SubSeq(lst, 1, Len(lst) - 1)), lst[Len(lst)])

\* set(t['net'] for c in components for t in c['terminals'])
NetSet(components) ==
    UNION {{components[i].terminals[j].net : j \in DOMAIN components[i].terminals} :
            i \in DOMAIN components}

\* NetList without the sort: the nets in the iteration order of the set
NetList_HashOrder(components, seed) == ListOfSet(NetSet(components), seed)

\* nets = sorted(list(set(...)))
NetList(components, seed) == Sorted(ListOfSet(NetSet(components), seed))

\* net_idx[n], comp_idx[name]: positions counted from 0; a dict comprehension
\* keeps the last position of a repeated key
IndexOf(names, n) ==
    (CHOOSE i \in DOMAIN names : names[i] = n /\ \A j \in (i + 1)..Len(names) : names[j] # n) - 1

L_0 == <<"0">>

\* self.net_patterns['supply'].match(n): r'vdd!|gnd!|0' at the start of n
SupplyMatch(n) ==
    \/ StartsWith(n, <<"v", "d", "d", "!">>)
    \/ StartsWith(n, <<"g", "n", "d", "!">>)
    \/ StartsWith(n, L_0)
\* self.net_patterns['bias'].search(n): r'vbias|ibias', re.IGNORECASE
BiasSearch(n) ==
    \/ Contains(LowerStr(n), <<"v", "b", "i", "a", "s">>)
    \/ Contains(LowerStr(n), <<"i", "b", "i", "a", "s">>)
\* self.net_patterns['signal'].search(n): r'vin|vout', re.IGNORECASE
SignalSearch(n) ==
    \/ Contains(LowerStr(n), <<"v", "i", "n">>)
    \/ Contains(LowerStr(n), <<"v", "o", "u", "t">>)

\* type_id of a net
NetTypeId(n) ==
    IF SupplyMatch(n) THEN 0
    ELSE IF BiasSearch(n) THEN 1
    ELSE IF SignalSearch(n) THEN 2
    ELSE 3

\* one row of comp_feat
CompFeat(c) ==
    <<comp_type_map[c.type], c.params.l, c.params.nfin, c.params.r, c.params.c, c.params.dc>>

\* the edges of one component: [c_i, n_i] and the terminal code
EdgesOf(c, names, nets) ==
    [j \in DOMAIN c.terminals |->
        [c_i |-> IndexOf(names, c.name),
         n_i |-> IndexOf(nets, c.terminals[j].net),
         attr |-> term_map[c.terminals[j].name]]]

RECURSIVE EdgeList(_, _, _)
\* for c in components: for t in c['terminals']: ...
EdgeList(components, names, nets) ==
    IF components = <<>> THEN <<>>
    ELSE EdgesOf(Head(components), names, nets) \o EdgeList(Tail(components), names, nets)


\* the metadata dict: the web parser records the file name, the
\* conversion_scripts parser the perf_specs it was given
Metadata(global_params, v) ==
    [tempc |-> GetOr(global_params, <<"t", "e", "m", "p", "c">>, [m |-> 27, e |-> 0]),
     fet_num |-> GetOr(global_params, <<"f", "e", "t", "_", "n", "u", "m">>, Zero),
     filename |-> IF v = "web" THEN "netlist.scs" ELSE "",
     has_filename |-> (v = "web")]

\* _build_hetero_data(components, global_params, ...); seed fixes the
\* iteration order of the set of nets
build_hetero_data(components, global_params, v, seed) ==
    LET nets == NetList(components, seed)
        names == [i \in DOMAIN components |-> components[i].name]
        edges == EdgeList(components, names, nets)
    IN  [nets |-> nets,
         components |-> names,
         net_feat |-> [i \in DOMAIN nets |-> NetTypeId(nets[i])],
         comp_feat |-> [i \in DOMAIN components |-> CompFeat(components[i])],
         edge_index |-> [k \in DOMAIN edges |-> <<edges[k].c_i, edges[k].n_i>>],
         edge_attr |-> [k \in DOMAIN edges |-> edges[k].attr],
         metadata |-> Metadata(global_params, v),
         comp_details |-> [i \in DOMAIN components |-> components[i].params]]

-----------------------------------------------------------------------------
(* graph_to_json.py                                                        *)

\* COMP_TYPE_MAP
COMP_TYPE_MAP == <<"nfet", "pfet", "resistor", "capacitor", "vsource", "isource", "vcvs">>
\* TERM_MAP
TERM_MAP == <<"D", "G", "S", "B", "P", "N", "pos", "neg", "ctrl_pos", "ctrl_neg">>

\* get_label(val, mapping) for a numeric code (or a list holding one):
\* mapping.get(int(val), f"unknown_{int(val)}"); the mappings are 0-based
get_label(val, mapping) ==
    IF val + 1 \in DOMAIN mapping THEN mapping[val + 1] ELSE <<"unknown", val>>

\* signature = (subtype, frozenset(sorted(raw_params.items())))
Signature(g, i) ==
    <<get_label(g.comp_feat[i][1], COMP_TYPE_MAP),
      IF g.comp_details[i].has_params_raw THEN g.comp_details[i].params_raw ELSE EmptyDict>>

RECURSIVE PairIds(_, _)
\* pair_id of the components 1..n in the order of the loop: pair_groups and
\* next_pair_id
PairIds(g, n) ==
    IF n = 0 THEN <<>>
    ELSE LET before == PairIds(g, n - 1)
             same == {j \in 1..(n - 1) : Signature(g, j) = Signature(g, n)}
             used == {before[j] : j \in 1..(n - 1)}
         IN  Append(before, IF same # {} THEN before[CHOOSE j \in same : TRUE]
                            ELSE Cardinality(used) + 1)

\* components[name] = {...}: a later component of the same name replaces the entry
ComponentNodes(g) ==
    LET ids == PairIds(g, Len(g.components))
    IN  [name \in {g.components[i] : i \in DOMAIN g.components} |->
            LET i == IndexOf(g.components, name) + 1
            IN  [type |-> "COMPONENT",
                 subtype |-> get_label(g.comp_feat[i][1], COMP_TYPE_MAP),
                 pair_id |-> ids[i]]]

\* nets[name] = {"type": "NET"}
NetNodes(g) == [name \in {g.nets[i] : i \in DOMAIN g.nets} |-> [type |-> "NET"]]

\* {**a, **b}
Merge(a, b) == [k \in DOMAIN a \cup DOMAIN b |-> IF k \in DOMAIN b THEN b[k] ELSE a[k]]

\* the edges loop
EdgeTriples(g) ==
    [k \in DOMAIN g.edge_index |->
        [source |-> g.components[g.edge_index[k][1] + 1],
         target |-> g.nets[g.edge_index[k][2] + 1],
         pin |-> get_label(g.edge_attr[k], TERM_MAP)]]

\* reconstruct_circuit(data)
reconstruct_circuit(g) ==
    [topology_id |-> 1,
     netlist |-> IF g.metadata.has_filename THEN g.metadata.filename ELSE "unknown.scs",
     directed |-> FALSE,
     nodes |-> Merge(ComponentNodes(g), NetNodes(g)),
     edges |-> EdgeTriples(g)]

-----------------------------------------------------------------------------
(* NetlistToGraph.parse_file as a function of the text                     *)

RECURSIVE FlatComponents(_, _, _, _, _, _)
\* flat_components after the iterations i.. of `for line in lines`
FlatComponents(ls, i, in_topo, defs, scope, v) ==
    IF i > Len(ls) THEN <<>>
    ELSE LET r == LoopBody(ls[i], in_topo, defs, scope, v)
         IN  r.comps \o FlatComponents(ls, i + 1, r.in_topology, defs, scope, v)

\* parse_file(file_path) for a file holding text
parse_file(text, v, seed) ==
    build_hetero_data(FlatComponents(TopLines(text), 1, FALSE,
                                     ExtractSubckts(text, 1, EmptyDict),
                                     ExtractParams(text, v), v),
                      ExtractParams(text, v), v, seed)

-----------------------------------------------------------------------------
(* server.py: upload_file                                                  *)

\* length of the match of json.scanner's NUMBER_RE,
\* r'(-?(?:0|[1-9]\d*))(\.\d+)?([eE][-+]?\d+)?', at the start of r
JsonNumberLen(r) ==
    LET ns == IF r # <<>> /\ r[1] = "-" THEN 1 ELSE 0
        d == DropN(r, ns)
        ni == IF d = <<>> THEN 0 ELSE IF d[1] = "0" THEN 1 ELSE SpanLen(d, Digits)
        f == DropN(d, ni)
        nf == IF Len(f) >= 2 /\ f[1] = "." /\ IsDigit(f[2]) THEN 1 + SpanLen(Tail(f), Digits) ELSE 0
        x == DropN(f, nf)
        xs == IF Len(x) >= 2 /\ x[2] \in {"+", "-"} THEN 1 ELSE 0
        nx == IF x # <<>> /\ x[1] \in {"e", "E"} /\ SpanLen(DropN(x, 1 + xs), Digits) > 0
              THEN 1 + xs + SpanLen(DropN(x, 1 + xs), Digits) ELSE 0
    IN  IF ni = 0 THEN 0 ELSE ns + ni + nf + nx

RECURSIVE JsonEnd(_, _, _)
RECURSIVE JsonAfter(_, _, _, _)
\* json.decoder: the position after the JSON text of kind want ("value", a
\* "member" of an object, an "element" of an array, the "colon" and value of a
\* member) that starts at s[i], 0 when there is none (JSONDecodeError).  The
\* payloads of the model hold no white space and no escape sequences.
JsonEnd(s, i, want) ==
    IF i > Len(s) THEN 0
    ELSE IF want = "member"
        THEN IF s[i] = "\"" THEN JsonEnd(s, JsonEnd(s, i, "value"), "colon") ELSE 0
    ELSE IF want = "colon"
        THEN IF i > 0 /\ s[i] = ":" THEN JsonAfter(s, JsonEnd(s, i + 1, "value"), "}", "member") ELSE 0
    ELSE IF want = "element"
        THEN JsonAfter(s, JsonEnd(s, i, "value"), "]", "element")
    ELSE IF s[i] = "\""
        THEN IF HasChar(DropN(s, i), "\"") THEN i + FirstPos(DropN(s, i), "\"") + 1 ELSE 0
    ELSE IF s[i] = "{"
        THEN IF i < Len(s) /\ s[i + 1] = "}" THEN i + 2 ELSE JsonEnd(s, i + 1, "member")
    ELSE IF s[i] = "["
        THEN IF i < Len(s) /\ s[i + 1] = "]" THEN i + 2 ELSE JsonEnd(s, i + 1, "element")
    ELSE IF \E w \in {<<"n", "u", "l", "l">>, <<"t", "r", "u", "e">>} : StartsWith(DropN(s, i - 1), w)
        THEN i + 4
    ELSE IF StartsWith(DropN(s, i - 1), <<"f", "a", "l", "s", "e">>)
        THEN i + 5
    ELSE IF JsonNumberLen(DropN(s, i - 1)) > 0
        THEN i + JsonNumberLen(DropN(s, i - 1))
    ELSE 0

\* after an item that ended before position j: a comma and the next item, or
\* the closing bracket
JsonAfter(s, j, close, want) ==
    IF j = 0 \/ j > Len(s) THEN 0
    ELSE IF s[j] = "," THEN JsonEnd(s, j + 1, want)
    ELSE IF s[j] = close THEN j + 1
    ELSE 0

\* whether json.loads(s) returns (rather than raising JSONDecodeError)
json_loads(s) == JsonEnd(s, 1, "value") = Len(s) + 1

\* converter.parse_file(temp_file_path, perf_specs=specs_dict), keywords being
\* the names of the keyword arguments: the graph, or the TypeError of a call
\* with a keyword the method does not take.  The web parser's parse_file
\* takes file_path only, the conversion_scripts parser's also perf_specs;
\* the server imports the parser of its own directory (the web parser).
CallParseFile(text, keywords, v, seed) ==
    IF keywords \subseteq (IF v = "web" THEN {"file_path"} ELSE {"file_path", "perf_specs"})
    THEN parse_file(text, v, seed)
    ELSE [exc |-> "TypeError",
          message |-> "NetlistToGraph.parse_file() got an unexpected keyword argument 'perf_specs'"]

\* a handler that answers an exception of the conversion with a success response
Respond_Swallow(g, filename) ==
    [status |-> 200, content |-> [graph |-> None, metadata |-> [filename |-> filename]],
     converted |-> TRUE]

\* the try block of upload_file for the outcome g of the conversion
Respond(g, filename) ==
    IF "exc" \in DOMAIN g
    THEN [status |-> 500, detail |-> <<"Conversion failed: ", g.message>>, converted |-> TRUE]
    ELSE [status |-> 200,
          content |-> [graph |-> reconstruct_circuit(g), metadata |-> [filename |-> filename]],
          converted |-> TRUE]

\* upload_file(file, perf_specs): the response; converted tells whether the
\* handler reached the conversion
upload_file(filename, perf_specs, text, v, seed) ==
    IF ~EndsWith(filename, <<".", "s", "c", "s">>)
    THEN [status |-> 400, detail |-> "Invalid file type. Please upload a .scs file.", converted |-> FALSE]
    ELSE IF ~json_loads(perf_specs)
    THEN [status |-> 400, detail |-> "Invalid JSON format for perf_specs.", converted |-> FALSE]
    ELSE Respond(CallParseFile(text, {"perf_specs"}, v, seed), filename)

-----------------------------------------------------------------------------
(* The netlists of the model                                               *)

\* number of statements and blocks a netlist file of the model holds
MaxWrites == 3

N_p1 == <<"p", "1">>
N_p2 == <<"p", "2">>
N_pa == <<"p", "a">>
N_pb == <<"p", "b">>
N_foo == <<"f", "o", "o">>
N_VDD == <<"V", "D", "D", "!">>
N_vbias_n == <<"v", "b", "i", "a", "s", "_", "n">>
C_R1 == <<"R", "1">>
C_R2 == <<"R", "2">>
C_M1 == <<"M", "1">>
C_xA == <<"x", "A">>
S_sub1 == <<"s", "u", "b", "1">>
K_rload == <<"r", "l", "o", "a", "d">>
V_1k == <<"1", "k">>
\* the token key=value
Assign(k, val) == k \o <<"=">> \o val

\* *--- TOPOLOGY ---*
TopologyMarker == << <<W_open, W_TOPOLOGY, W_close>> >>
\* subckt sub1 pa pb / M1 pa pb nfet / ends sub1
Sub1Block == << <<W_subckt, S_sub1, N_pa, N_pb>>, <<C_M1, N_pa, N_pb, T_nfet>>, <<W_ends, S_sub1>> >>
\* xA p1 p2 sub1
InstA == << <<C_xA, N_p1, N_p2, S_sub1>> >>
\* parameters rload=1k
ParamLine == << <<W_parameters, Assign(K_rload, V_1k)>> >>
\* R1 p1 vbias_n resistor r=1k
ResR1 == << <<C_R1, N_p1, N_vbias_n, T_resistor, Assign(K_r, V_1k)>> >>
\* R1 VDD! foo resistor r=rload
ResR1b == << <<C_R1, N_VDD, N_foo, T_resistor, Assign(K_r, K_rload)>> >>
\* R2 R1 0 resistor r=1k
ResR2 == << <<C_R2, C_R1, L_0, T_resistor, Assign(K_r, V_1k)>> >>

\* what one write appends to the file: a statement line or a whole block
Chunks == {TopologyMarker, Sub1Block, InstA, ParamLine, ResR1, ResR1b, ResR2}

-----------------------------------------------------------------------------
(* The program: a netlist file is written, parse_file reads it (twice, to  *)
(* compare the runs), reconstruct_circuit projects the graph               *)

Init ==
    /\ variant \in {"web", "conv"}
    /\ content = <<>>
    /\ nwrites = 0
    /\ pc = "write"
    /\ params = EmptyScope
    /\ subckts = EmptyDict
    /\ lines = <<>>
    /\ idx = 0
    /\ in_topology = FALSE
    /\ flat_components = <<>>
    /\ graph = None
    /\ prev_graph = None
    /\ projection = None
    /\ call = None
    /\ ret = None

\* the netlist file grows by one statement or block
WriteChunk ==
    /\ pc = "write"
    /\ nwrites < MaxWrites
    /\ \E chunk \in Chunks : content' = content \o chunk
    /\ nwrites' = nwrites + 1
    /\ UNCHANGED <<variant, pc, params, subckts, lines, idx, in_topology,
                   flat_components, graph, prev_graph, projection, call, ret>>

\* parse_file up to the flattening loop: params, subckts, top_content
ParseFileEnter ==
    /\ pc = "write" \/ (pc = "projected" /\ prev_graph = None)
    /\ params' = ExtractParams(content, variant)
    /\ subckts' = ExtractSubckts(content, 1, EmptyDict)
    /\ lines' = TopLines(content)
    /\ idx' = 1
    /\ in_topology' = FALSE
    /\ flat_components' = <<>>
    /\ prev_graph' = graph
    /\ graph' = None
    /\ projection' = None
    /\ pc' = "flatten"
    /\ UNCHANGED <<variant, content, nwrites, call, ret>>

\* the effect of one iteration r on in_topology and flat_components
Appended(r) ==
    /\ in_topology' = r.in_topology
    /\ flat_components' = flat_components \o r.comps

\* one iteration of `for line in lines`
ParseFileLoop ==
    /\ pc = "flatten"
    /\ idx <= Len(lines)
    /\ Appended(LoopBody(lines[idx], in_topology, subckts, params, variant))
    /\ idx' = idx + 1
    /\ UNCHANGED <<variant, content, nwrites, pc, params, subckts, lines,
                   graph, prev_graph, projection, call, ret>>

\* return self._build_hetero_data(flat_components, params, ...)
ParseFileReturn ==
    /\ pc = "flatten"
    /\ idx > Len(lines)
    /\ \E seed \in 0..MaxSeed :
        graph' = build_hetero_data(flat_components, params, variant, seed)
    /\ pc' = "parsed"
    /\ UNCHANGED <<variant, content, nwrites, params, subckts, lines, idx,
                   in_topology, flat_components, prev_graph, projection, call, ret>>

\* a pairing pass that annotates the components of the graph it is given:
\* it appends each pair identifier to the component's feature vector
ReconstructCircuit_Annotating ==
    /\ pc = "parsed"
    /\ projection' = reconstruct_circuit(graph)
    /\ graph' = [graph EXCEPT !.comp_feat =
                    [i \in DOMAIN @ |-> Append(@[i], PairIds(graph, Len(graph.components))[i])]]
    /\ pc' = "projected"
    /\ UNCHANGED <<variant, content, nwrites, params, subckts, lines, idx,
                   in_topology, flat_components, prev_graph, call, ret>>

\* structured_data = reconstruct_circuit(graph_data)
ReconstructCircuit ==
    /\ pc = "parsed"
    /\ projection' = reconstruct_circuit(graph)
    /\ pc' = "projected"
    /\ UNCHANGED <<variant, content, nwrites, params, subckts, lines, idx,
                   in_topology, flat_components, graph, prev_graph, call, ret>>

\* structured_data = reconstruct_circuit(graph_data), the handler's second
\* call on the same graph_data
ReconstructCircuitAgain ==
    /\ pc = "projected"
    /\ projection' = reconstruct_circuit(graph)
    /\ pc' = "reprojected"
    /\ UNCHANGED <<variant, content, nwrites, params, subckts, lines, idx,
                   in_topology, flat_components, graph, prev_graph, call, ret>>

Next ==
    \/ WriteChunk
    \/ ParseFileEnter
    \/ ParseFileLoop
    \/ ParseFileReturn
    \/ ReconstructCircuit

Spec == Init /\ [][Next]_vars

-----------------------------------------------------------------------------
(* Direct calls of _parse_value                                            *)

\* length of the letter suffixes of the value tokens
MaxSuffixLen == 2

\* numeric prefixes of the value tokens, each with the number it writes
PrefixTable ==
    { [tok |-> <<"5">>, val |-> [m |-> 5, e |-> 0]],
      [tok |-> <<"1", "0">>, val |-> [m |-> 1, e |-> 1]],
      [tok |-> <<"2", ".", "2">>, val |-> [m |-> 22, e |-> -1]],
      [tok |-> <<"-", "3">>, val |-> [m |-> -3, e |-> 0]],
      [tok |-> <<"+", "1", ".", "5">>, val |-> [m |-> 15, e |-> -1]],
      [tok |-> <<".", "2", "5">>, val |-> [m |-> 25, e |-> -2]],
      [tok |-> <<"1", "0", "0", ".">>, val |-> [m |-> 1, e |-> 2]] }

SuffixLetters == {"f", "p", "n", "u", "m", "k", "M", "G", "T", "x", "e", "E", "K", "F"}
LetterSuffixes == UNION {[1..n -> SuffixLetters] : n \in 0..MaxSuffixLen}

V_5k == <<"5", "k">>
Thousand == [m |-> 1, e |-> 3]
ScopeRload == [k \in {K_rload} |-> Thousand]
\* a scope with a name that also reads as a number
ScopeNumeric == [k \in {K_rload, V_5k} |-> IF k = K_rload THEN Thousand ELSE [m |-> 7, e |-> 0]]
Scopes == {EmptyScope, ScopeRload, ScopeNumeric}

ValueTokens == {p.tok \o s : p \in PrefixTable, s \in LetterSuffixes} \cup {K_rload}

\* the main program's variables while a function is called directly
Idle ==
    /\ content = <<>>
    /\ nwrites = 0
    /\ params = EmptyScope
    /\ subckts = EmptyDict
    /\ lines = <<>>
    /\ idx = 0
    /\ in_topology = FALSE
    /\ flat_components = <<>>
    /\ graph = None
    /\ prev_graph = None
    /\ projection = None

InitValue ==
    /\ variant \in {"web", "conv"}
    /\ pc = "call"
    /\ call \in {[fn |-> "parse_value", val_str |-> t, params |-> sc] : t \in ValueTokens, sc \in Scopes}
    /\ ret = None
    /\ Idle

\* ret = self._parse_value(val_str, params)
CallParseValue ==
    /\ pc = "call"
    /\ call.fn = "parse_value"
    /\ ret' = parse_value(Str(call.val_str), call.params, variant)
    /\ pc' = "returned"
    /\ UNCHANGED <<variant, content, nwrites, params, subckts, lines, idx, in_topology,
                   flat_components, graph, prev_graph, projection, call>>

NextValue == CallParseValue

SpecValue == InitValue /\ [][NextValue]_vars

-----------------------------------------------------------------------------
(* Direct calls of _parse_component_line                                   *)

\* number of tokens in the parameter span of a statement
MaxParamTokens == 2

V_2k == <<"2", "k">>
V_3k == <<"3", "k">>
\* r=rload, r=5k, nR=2k, l=rload, and the unnamed value 3k
ParamTokens == {Assign(K_r, K_rload), Assign(K_r, V_5k), Assign(K_nR, V_2k), Assign(<<"l">>, K_rload), V_3k}
ParamSpans == UNION {[1..n -> ParamTokens] : n \in 0..MaxParamTokens}

\* <name> pa p2 <type> <parameter span>
StatementLines == {<<C_R1, N_pa, N_p2, t>> \o ps : t \in {T_resistor, T_nfet}, ps \in ParamSpans}
\* the parameter span of a statement line
ParamSpan(line) == SubSeq(line, 5, Len(line))

PortMapA == [k \in {N_pa, N_pb} |-> IF k = N_pa THEN N_p1 ELSE N_p2]

InitLine ==
    /\ variant \in {"web", "conv"}
    /\ pc = "call"
    /\ call \in {[fn |-> "parse_component_line", line |-> l, port_map |-> PortMapA,
                  params |-> sc, prefix |-> pf] :
                    l \in StatementLines, sc \in Scopes, pf \in {W_top, C_xA}}
    /\ ret = None
    /\ Idle

\* ret = self._parse_component_line(line, port_map, params, prefix)
CallParseComponentLine ==
    /\ pc = "call"
    /\ call.fn = "parse_component_line"
    /\ ret' = parse_component_line(call.line, call.port_map, call.params, call.prefix, variant)
    /\ pc' = "returned"
    /\ UNCHANGED <<variant, content, nwrites, params, subckts, lines, idx, in_topology,
                   flat_components, graph, prev_graph, projection, call>>

NextLine == CallParseComponentLine

SpecLine == InitLine /\ [][NextLine]_vars

-----------------------------------------------------------------------------
(* Direct calls of _parse_component_line on statements with 0..MaxNets nets *)

\* number of net tokens of a statement
MaxNets == 5

\* pa, p1, (pb and foo)
NetTokenSet == {N_pa, N_p1, <<"(">> \o N_pb, N_foo \o <<")">>}
NetSpans == UNION {[1..n -> NetTokenSet] : n \in 0..MaxNets}

\* <name> <nets> <type> r=1k
TerminalLines ==
    {<<C_M1>> \o ns \o <<t, Assign(K_r, V_1k)>> :
        ns \in NetSpans, t \in {T_nfet, T_pfet, T_resistor, T_capacitor}}

InitTerminals ==
    /\ variant \in {"web", "conv"}
    /\ pc = "call"
    /\ call \in {[fn |-> "parse_component_line", line |-> l, port_map |-> pm,
                  params |-> EmptyScope, prefix |-> W_top] :
                    l \in TerminalLines, pm \in {PortMapA, EmptyDict}}
    /\ ret = None
    /\ Idle

SpecTerminals == InitTerminals /\ [][NextLine]_vars

-----------------------------------------------------------------------------
(* Direct calls of _parse_component_line on statements with sizing         *)
(* parameters                                                              *)

K_nfin == <<"n", "f", "i", "n">>
K_w == <<"w">>
K_nC == <<"n", "C">>
K_c == <<"c">>
\* nfin=rload, w=2k, nR=rload, r=5k, nC=rload, c=2k, and the unnamed value 3k
SizingTokens ==
    {Assign(K_nfin, K_rload), Assign(K_w, V_2k), Assign(K_nR, K_rload), Assign(K_r, V_5k),
     Assign(K_nC, K_rload), Assign(K_c, V_2k), V_3k}
SizingSpans == UNION {[1..n -> SizingTokens] : n \in 0..MaxParamTokens}

\* <name> pa p2 <type> <parameter span>
SizingLines ==
    {<<C_M1, N_pa, N_p2, t>> \o ps : t \in {T_nfet, T_resistor, T_capacitor}, ps \in SizingSpans}

InitSizing ==
    /\ variant \in {"web", "conv"}
    /\ pc = "call"
    /\ call \in {[fn |-> "parse_component_line", line |-> l, port_map |-> PortMapA,
                  params |-> sc, prefix |-> W_top] :
                    l \in SizingLines, sc \in {EmptyScope, ScopeRload}}
    /\ ret = None
    /\ Idle

SpecSizing == InitSizing /\ [][NextLine]_vars

-----------------------------------------------------------------------------
(* Direct calls of _parse_component_line on source statements              *)

\* V1 <nets> <type> dc=rload
SourceLines ==
    {<<<<"V", "1">>>> \o ns \o <<t, Assign(<<"d", "c">>, K_rload)>> :
        ns \in NetSpans, t \in {T_vsource, T_isource, T_vcvs}}

InitSources ==
    /\ variant \in {"web", "conv"}
    /\ pc = "call"
    /\ call \in {[fn |-> "parse_component_line", line |-> l, port_map |-> pm,
                  params |-> ScopeRload, prefix |-> W_top] :
                    l \in SourceLines, pm \in {PortMapA, EmptyDict}}
    /\ ret = None
    /\ Idle

SpecSources == InitSources /\ [][NextLine]_vars

-----------------------------------------------------------------------------
(* Direct calls of either function                                         *)

InitCalls == InitValue \/ InitLine

NextCalls ==
    \/ CallParseValue
    \/ CallParseComponentLine

SpecCalls == InitCalls /\ [][NextCalls]_vars

-----------------------------------------------------------------------------
(* parse_file and reconstruct_circuit on netlists made of given statements *)

\* number of statements and blocks of these netlists
MaxStatements == 3

RECURSIVE Concat(_)
Concat(blocks) == IF blocks = <<>> THEN <<>> ELSE Head(blocks) \o Concat(Tail(blocks))

\* the netlists of up to n statements and blocks of the set chunks
TextsOf(chunks, n) == {Concat(f) : f \in UNION {[1..k -> chunks] : k \in 0..n}}

\* a file holding one of the netlists of texts has been written
InitTexts(texts) ==
    /\ variant \in {"web", "conv"}
    /\ content \in texts
    /\ nwrites = 0
    /\ pc = "write"
    /\ params = EmptyScope
    /\ subckts = EmptyDict
    /\ lines = <<>>
    /\ idx = 0
    /\ in_topology = FALSE
    /\ flat_components = <<>>
    /\ graph = None
    /\ prev_graph = None
    /\ projection = None
    /\ call = None
    /\ ret = None

NextParse ==
    \/ ParseFileEnter
    \/ ParseFileLoop
    \/ ParseFileReturn
    \/ ReconstructCircuit

K_a == <<"a">>
K_b == <<"b">>
\* parameters a=1k / parameters a=2k / parameters b=a / parameters a=1k b=a /
\* parameters b=a a=1k / R1 p1 p2 resistor r=b
ParamChunks ==
    { << <<W_parameters, Assign(K_a, V_1k)>> >>,
      << <<W_parameters, Assign(K_a, V_2k)>> >>,
      << <<W_parameters, Assign(K_b, K_a)>> >>,
      << <<W_parameters, Assign(K_a, V_1k), Assign(K_b, K_a)>> >>,
      << <<W_parameters, Assign(K_b, K_a), Assign(K_a, V_1k)>> >>,
      << <<C_R1, N_p1, N_p2, T_resistor, Assign(K_r, K_b)>> >> }

InitParams == InitTexts(TextsOf(ParamChunks, MaxStatements))

SpecParams == InitParams /\ [][NextParse]_vars

\* number of statements, blocks and marker lines of the netlists with
\* sections and of those with nested definitions
MaxSectionLines == 4

\* *--- TESTBENCH ---*
TestbenchMarker == << <<W_open, W_TESTBENCH, W_close>> >>

\* xB p1 p2 nosub: no subckt nosub is defined
InstB == << <<<<"x", "B">>, N_p1, N_p2, <<"n", "o", "s", "u", "b">>>> >>

SectionChunks == {TopologyMarker, TestbenchMarker, Sub1Block, InstA, InstB, ResR1}

InitSections == InitTexts(TextsOf(SectionChunks, MaxSectionLines))

SpecSections == InitSections /\ [][NextParse]_vars

S_sub2 == <<"s", "u", "b", "2">>
C_xC == <<"x", "C">>
\* subckt sub2 pa pb / R2 pa pb resistor r=1k / xI pa pb sub1 / ends sub2
Sub2Block ==
    << <<W_subckt, S_sub2, N_pa, N_pb>>,
       <<C_R2, N_pa, N_pb, T_resistor, Assign(K_r, V_1k)>>,
       <<<<"x", "I">>, N_pa, N_pb, S_sub1>>,
       <<W_ends, S_sub2>> >>
\* xC p1 p2 sub2
InstC == << <<C_xC, N_p1, N_p2, S_sub2>> >>

NestedChunks == {TopologyMarker, Sub1Block, Sub2Block, InstA, InstC}

InitNested == InitTexts(TextsOf(NestedChunks, MaxSectionLines))

SpecNested == InitNested /\ [][NextParse]_vars

N_0_vbias == <<"0", "_", "v", "b", "i", "a", "s">>
N_gndx == <<"g", "n", "d", "!", "x">>
N_gnd == <<"g", "n", "d", "!">>
N_vdd_vin == <<"v", "d", "d", "!", "_", "v", "i", "n">>
\* R1 0_vbias gnd!x resistor r=1k / R2 0 gnd! resistor r=1k /
\* R1 vdd!_vin foo resistor r=1k / R2 vbias_n p1 resistor r=1k
SupplyChunks ==
    { TopologyMarker,
      << <<C_R1, N_0_vbias, N_gndx, T_resistor, Assign(K_r, V_1k)>> >>,
      << <<C_R2, L_0, N_gnd, T_resistor, Assign(K_r, V_1k)>> >>,
      << <<C_R1, N_vdd_vin, N_foo, T_resistor, Assign(K_r, V_1k)>> >>,
      << <<C_R2, N_vbias_n, N_p1, T_resistor, Assign(K_r, V_1k)>> >> }

InitSupply == InitTexts(TextsOf(SupplyChunks, MaxStatements))

SpecSupply == InitSupply /\ [][NextParse]_vars

N_mid == <<"m", "i", "d">>
S_sub3 == <<"s", "u", "b", "3">>
C_xD == <<"x", "D">>
C_xE == <<"x", "E">>
\* subckt sub3 pa pb / M1 pa mid pb nfet / ends sub3: mid is a net of the body
\* that is no port
Sub3Block ==
    << <<W_subckt, S_sub3, N_pa, N_pb>>, <<C_M1, N_pa, N_mid, N_pb, T_nfet>>, <<W_ends, S_sub3>> >>
\* xD p1 p2 sub3
InstD == << <<C_xD, N_p1, N_p2, S_sub3>> >>
\* xE p2 sub3: one argument for two ports
InstE == << <<C_xE, N_p2, S_sub3>> >>
\* R1 mid pb resistor r=1k
ResMid == << <<C_R1, N_mid, N_pb, T_resistor, Assign(K_r, V_1k)>> >>

\* the topology marker, the definition of sub3, then instantiations of sub3
\* and top-level statements
SharedNetTexts ==
    {TopologyMarker \o Sub3Block \o t : t \in TextsOf({InstD, InstE, ResMid}, MaxStatements)}

InitSharedNets == InitTexts(SharedNetTexts)

SpecSharedNets == InitSharedNets /\ [][NextParse]_vars

-----------------------------------------------------------------------------
(* Upload requests                                                         *)

\* file names of the upload requests
FileNames ==
    { <<"a", ".", "s", "c", "s">>,
      <<"a", ".", "t", "x", "t">>,
      <<".", "s", "c", "s">>,
      <<"a", ".", "S", "C", "S">>,
      <<"s", "c", "s">> }

\* perf_specs payloads of the upload requests, each with whether it is a JSON text
PayloadTable ==
    { [text |-> <<"{", "}">>, valid |-> TRUE],
      [text |-> <<"{", "\"", "g", "\"", ":", "1", "}">>, valid |-> TRUE],
      [text |-> <<"{", "\"", "g", "\"", ":", "1", ",", "\"", "p", "\"", ":", "[", "2", ",", "3", "]", "}">>, valid |-> TRUE],
      [text |-> <<"1">>, valid |-> TRUE],
      [text |-> <<"n", "u", "l", "l">>, valid |-> TRUE],
      [text |-> <<"-", "1", ".", "5", "e", "3">>, valid |-> TRUE],
      [text |-> <<"[", "1", ",", "2", "]">>, valid |-> TRUE],
      [text |-> <<"\"", "g", "\"">>, valid |-> TRUE],
      [text |-> <<>>, valid |-> FALSE],
      [text |-> <<"{">>, valid |-> FALSE],
      [text |-> <<"[", "1", ",", "]">>, valid |-> FALSE],
      [text |-> <<"{", "\"", "g", "\"", "}">>, valid |-> FALSE],
      [text |-> <<"0", "1">>, valid |-> FALSE],
      [text |-> <<"{", "\"", "g", "\"", ":", "1", ",", "}">>, valid |-> FALSE],
      [text |-> <<"{", "g", ":", "1", "}">>, valid |-> FALSE],
      [text |-> <<"1", ".">>, valid |-> FALSE],
      [text |-> <<"{", "}", "}">>, valid |-> FALSE],
      [text |-> <<"n", "u", "l">>, valid |-> FALSE] }

\* the uploaded netlists: a topology marker and two statements or blocks
UploadTexts == {TopologyMarker \o a \o b : a, b \in Chunks}

InitUpload ==
    /\ variant = "web"
    /\ pc = "request"
    /\ call \in {[fn |-> "upload_file", filename |-> f, perf_specs |-> p.text] :
                    f \in FileNames, p \in PayloadTable}
    /\ content \in UploadTexts
    /\ ret = None
    /\ nwrites = 0
    /\ params = EmptyScope
    /\ subckts = EmptyDict
    /\ lines = <<>>
    /\ idx = 0
    /\ in_topology = FALSE
    /\ flat_components = <<>>
    /\ graph = None
    /\ prev_graph = None
    /\ projection = None

\* POST /upload: the handler runs to its response
UploadFile ==
    /\ pc = "request"
    /\ \E seed \in 0..MaxSeed :
        ret' = upload_file(call.filename, call.perf_specs, content, variant, seed)
    /\ pc' = "responded"
    /\ UNCHANGED <<variant, content, nwrites, params, subckts, lines, idx, in_topology,
                   flat_components, graph, prev_graph, projection, call>>

NextUpload == UploadFile

SpecUpload == InitUpload /\ [][NextUpload]_vars

-----------------------------------------------------------------------------
(* The conversion of upload_file's try block on the uploaded netlists:     *)
(* parse_file, then reconstruct_circuit twice on the graph it returned     *)

InitConversion == InitTexts(UploadTexts)

NextConversion ==
    \/ ParseFileEnter
    \/ ParseFileLoop
    \/ ParseFileReturn
    \/ ReconstructCircuit
    \/ ReconstructCircuitAgain

SpecConversion == InitConversion /\ [][NextConversion]_vars

-----------------------------------------------------------------------------
(* Properties                                                              *)

Range(q) == {q[i] : i \in DOMAIN q}
NetsOf(c) == [j \in DOMAIN c.terminals |-> c.terminals[j].net]
Last(q) == q[Len(q)]

\* C1: no two components of the list parse_file emits have the same name,
\* also when the input repeats a top-level name or an instance name.
C1_UniqueComponentNames ==
    pc = "parsed" =>
        \A i, j \in DOMAIN graph.components :
            i # j => graph.components[i] # graph.components[j]

\* C2: the net list of a built graph is sorted, holds each net some terminal
\* references exactly once, and holds no other net.
C2_NetList ==
    pc = "parsed" =>
        /\ \A k \in 1..(Len(graph.nets) - 1) : LexLess(graph.nets[k], graph.nets[k + 1])
        /\ \A k, l \in DOMAIN graph.nets : k # l => graph.nets[k] # graph.nets[l]
        /\ \A i \in DOMAIN flat_components :
            \A j \in DOMAIN flat_components[i].terminals :
                flat_components[i].terminals[j].net \in Range(graph.nets)
        /\ \A k \in DOMAIN graph.nets :
            \E i \in DOMAIN flat_components : graph.nets[k] \in Range(NetsOf(flat_components[i]))

\* a graph built from components that share a net, with three nets or more
C2_Witness ==
    /\ pc = "parsed"
    /\ Len(graph.nets) >= 3
    /\ \E i, j \in DOMAIN flat_components :
        i # j /\ Range(NetsOf(flat_components[i])) \cap Range(NetsOf(flat_components[j])) # {}

RECURSIVE TerminalsBefore(_, _)
\* number of terminals of the components before position i
TerminalsBefore(comps, i) ==
    IF i <= 1 THEN 0 ELSE TerminalsBefore(comps, i - 1) + Len(comps[i - 1].terminals)

\* C3: one edge per terminal of every component; the edge of terminal j of
\* the component at position i carries component index i, the position of
\* the terminal's net in the net list, and the terminal's role code.
C3_EdgePerTerminal ==
    pc = "parsed" =>
        /\ Len(graph.edge_index) = TerminalsBefore(flat_components, Len(flat_components) + 1)
        /\ \A i \in DOMAIN flat_components :
            \A j \in DOMAIN flat_components[i].terminals :
                LET k == TerminalsBefore(flat_components, i) + j
                    t == flat_components[i].terminals[j]
                IN  /\ graph.edge_index[k][1] = i - 1
                    /\ graph.nets[graph.edge_index[k][2] + 1] = t.net
                    /\ graph.edge_attr[k] = term_map[t.name]

\* xA p1 p2 sub1
InstALine == InstA[1]
\* sub1 with ports (pa pb) and the body M1 pa pb nfet
Sub1Def == [ports |-> <<N_pa, N_pb>>, body |-> << <<C_M1, N_pa, N_pb, T_nfet>> >>]
Name_A_M1 == <<"A", "_", "M", "1">>
Name_xA_M1 == <<"x", "A", "_", "M", "1">>

\* the loop is about to dispatch the instantiation xA p1 p2 sub1 of Sub1Def
AtInstA ==
    /\ pc = "flatten"
    /\ idx <= Len(lines)
    /\ lines[idx] = InstALine
    /\ S_sub1 \in DOMAIN subckts
    /\ subckts[S_sub1] = Sub1Def
    /\ variant = "web" => in_topology

\* the step appends exactly one component: name, nfet, bound to p1 and p2
AppendsOne(name) ==
    /\ Len(flat_components') = Len(flat_components) + 1
    /\ SubSeq(flat_components', 1, Len(flat_components)) = flat_components
    /\ Last(flat_components').name = name
    /\ Last(flat_components').type = T_nfet
    /\ NetsOf(Last(flat_components')) = <<N_p1, N_p2>>

C5_Deterministic ==
    (pc = "parsed" /\ prev_graph # None) =>
        /\ graph.nets = prev_graph.nets
        /\ graph.components = prev_graph.components
        /\ graph.edge_index = prev_graph.edge_index
        /\ graph.edge_attr = prev_graph.edge_attr

\* a second run has returned a graph with several nets and edges
C5_Witness ==
    /\ pc = "parsed"
    /\ prev_graph # None
    /\ Len(graph.nets) >= 3
    /\ Len(graph.edge_index) >= 4

\* C6: the projection holds every component node and every net node of the
\* graph exactly once, and every edge exactly once as (source, target, pin),
\* also when a component name equals a net name.
C6_ProjectionPreserves ==
    pc = "projected" =>
        /\ Cardinality(DOMAIN projection.nodes) = Len(graph.components) + Len(graph.nets)
        /\ \A i \in DOMAIN graph.components :
            /\ graph.components[i] \in DOMAIN projection.nodes
            /\ projection.nodes[graph.components[i]].type = "COMPONENT"
            /\ projection.nodes[graph.components[i]].subtype = COMP_TYPE_MAP[graph.comp_feat[i][1] + 1]
        /\ \A k \in DOMAIN graph.nets :
            /\ graph.nets[k] \in DOMAIN projection.nodes
            /\ projection.nodes[graph.nets[k]].type = "NET"
        /\ Len(projection.edges) = Len(graph.edge_index)
        /\ \A k \in DOMAIN graph.edge_index :
            projection.edges[k] = [source |-> graph.components[graph.edge_index[k][1] + 1],
                                   target |-> graph.nets[graph.edge_index[k][2] + 1],
                                   pin |-> TERM_MAP[graph.edge_attr[k] + 1]]

\* the pairing signature of component i of the graph: type code and raw parameters
PairKey(i) == <<graph.comp_feat[i][1], graph.comp_details[i].params_raw>>
\* position of the first component with the pairing signature of component i
FirstWithKey(i) == CHOOSE j \in 1..i : PairKey(j) = PairKey(i) /\ \A l \in 1..(j - 1) : PairKey(l) # PairKey(i)

\* C7: in the projection two components have the same pair identifier iff
\* they have the same type and the same raw parameters; the identifiers are
\* 1..k in the order in which the signatures are first seen.
C7_Pairing ==
    pc = "projected" =>
        /\ \A i \in DOMAIN graph.components :
            projection.nodes[graph.components[i]].type = "COMPONENT"
        /\ \A i, j \in DOMAIN graph.components :
            (projection.nodes[graph.components[i]].pair_id = projection.nodes[graph.components[j]].pair_id)
                <=> (PairKey(i) = PairKey(j))
        /\ \A i \in DOMAIN graph.components :
            projection.nodes[graph.components[i]].pair_id
                = Cardinality({PairKey(l) : l \in 1..FirstWithKey(i)})

\* C8: VDD! is classified supply (0), vbias_n bias (1), foo internal (3).
C8_Classification ==
    pc = "parsed" =>
        \A k \in DOMAIN graph.nets :
            /\ graph.nets[k] = N_VDD => graph.net_feat[k] = 0
            /\ graph.nets[k] = N_vbias_n => graph.net_feat[k] = 1
            /\ graph.nets[k] = N_foo => graph.net_feat[k] = 3

V_10n == <<"1", "0", "n">>
V_2p2k == <<"2", ".", "2", "k">>
V_5 == <<"5">>
V_5x == <<"5", "x">>

\* the token is the prefix followed by letters only (possibly none)
LettersAfter(token, prefix) ==
    /\ Len(token) >= Len(prefix)
    /\ SubSeq(token, 1, Len(prefix)) = prefix
    /\ \A j \in (Len(prefix) + 1)..Len(token) : token[j] \in SuffixLetters

\* C9: for a token outside the scope made of a signed decimal prefix and
\* letters, _parse_value returns prefix * multiplier when the letters are one
\* recognised suffix and the bare prefix otherwise; 10n -> 1e-8, 2.2k -> 2200,
\* 5 -> 5, 5x -> 5.
C9_SuffixResolution ==
    (pc = "returned" /\ call.fn = "parse_value" /\ call.val_str \notin DOMAIN call.params) =>
        /\ \A p \in PrefixTable :
            LettersAfter(call.val_str, p.tok) =>
                ret = IF Len(call.val_str) = Len(p.tok) + 1 /\ Last(call.val_str) \in DOMAIN suffixes
                      THEN Normalise(p.val.m, p.val.e + suffixes[Last(call.val_str)])
                      ELSE p.val
        /\ call.val_str = V_10n => ret = [m |-> 1, e |-> -8]
        /\ call.val_str = V_2p2k => ret = [m |-> 22, e |-> 2]
        /\ call.val_str = V_5 => ret = [m |-> 5, e |-> 0]
        /\ call.val_str = V_5x => ret = [m |-> 5, e |-> 0]

\* _parse_value has returned 1e-8 for 10n
C9_Witness ==
    /\ pc = "returned"
    /\ call.fn = "parse_value"
    /\ call.val_str = V_10n
    /\ call.val_str \notin DOMAIN call.params
    /\ ret = [m |-> 1, e |-> -8]

\* the statement assigns r once, to the single token key, and assigns no nR
AssignsROnly(ptoks, key) ==
    \E k \in DOMAIN ptoks :
        /\ ptoks[k] = Assign(K_r, key)
        /\ k = Len(ptoks) \/ HasChar(ptoks[k + 1], "=")
        /\ \A l \in DOMAIN ptoks \ {k} :
            ~StartsWith(ptoks[l], Assign(K_r, <<>>)) /\ ~StartsWith(ptoks[l], Assign(K_nR, <<>>))

\* C10: with rload -> 1000.0 in the scope a statement with r=rload gets the
\* resistance 1000.0 (the statement assigns r once, to one token, and no nR);
\* a token that is a key of the scope resolves to the scope's value, also
\* when the token reads as a number.
C10_ScopeLookup ==
    /\ (pc = "returned" /\ call.fn = "parse_component_line" /\ ret # None) =>
            \A key \in DOMAIN call.params :
                AssignsROnly(ParamSpan(call.line), key) => ret.params.r = call.params[key]
    /\ (pc = "returned" /\ call.fn = "parse_value" /\ call.val_str \in DOMAIN call.params) =>
            ret = call.params[call.val_str]

\* a resistor statement with r=rload has been parsed under {rload: 1000.0}
C10_Witness ==
    /\ pc = "returned"
    /\ call.fn = "parse_component_line"
    /\ call.params = ScopeRload
    /\ call.line[4] = T_resistor
    /\ AssignsROnly(ParamSpan(call.line), K_rload)
    /\ ret # None
    /\ ret.params.r = Thousand

\* the request of the state is one the handler should convert: the file
\* name ends in .scs and perf_specs is a JSON text
ValidRequest ==
    /\ call.filename[Len(call.filename)] = "s"
    /\ Len(call.filename) >= 4
    /\ SubSeq(call.filename, Len(call.filename) - 3, Len(call.filename) - 1) = <<".", "s", "c">>
    /\ \E p \in PayloadTable : p.text = call.perf_specs /\ p.valid

\* C11: an upload whose file name ends in .scs, whose perf_specs is valid
\* JSON and whose content is a well-formed netlist is answered with the
\* projection of the parsed graph (status 200), not with an error response.
C11_UploadConverts ==
    (pc = "responded" /\ ValidRequest) =>
        /\ ret.status = 200
        /\ \E seed \in 0..MaxSeed :
            ret.content.graph = reconstruct_circuit(parse_file(content, variant, seed))

\* C12: a file name that does not end in .scs, or a perf_specs that is no
\* JSON text, is answered with status 400 before any conversion is started;
\* an exception raised by the conversion is answered with status 500 and a
\* detail that carries the exception's message.
C12_ErrorResponses ==
    pc = "responded" =>
        /\ ~ValidRequest => (ret.status = 400 /\ ~ret.converted)
        /\ ValidRequest =>
            \A seed \in 0..MaxSeed :
                LET e == CallParseFile(content, {"perf_specs"}, variant, seed)
                IN  "exc" \in DOMAIN e =>
                        /\ ret.status = 500
                        /\ ret.detail = <<"Conversion failed: ", e.message>>
                        /\ ret.converted

C12_Witness ==
    /\ pc = "responded"
    /\ ValidRequest
    /\ ret.status = 500
    /\ ret.detail[2] = "NetlistToGraph.parse_file() got an unexpected keyword argument 'perf_specs'"

RECURSIVE SequentialScope(_, _)
\* the scope that resolving each value of pairs against the scope built so
\* far gives
SequentialScope(pairs, d) ==
    IF pairs = <<>> THEN d
    ELSE SequentialScope(Tail(pairs),
                         Put(d, Head(pairs)[1], parse_value(Str(Head(pairs)[2]), d, variant)))

RECURSIVE PairsOfLines(_)
\* the key=value pairs of the parameters statements in the order of the text
PairsOfLines(p_lines) ==
    IF p_lines = <<>> THEN <<>> ELSE AssignmentsOf(Head(p_lines)) \o PairsOfLines(Tail(p_lines))

\* C13: the global scope is what resolving each value of the parameters
\* statements, in the order of the text, against the scope built so far
\* gives: a value naming an earlier parameter receives that parameter's
\* value, a value naming a later one does not, a later definition of a name
\* replaces the earlier one.
C13_SequentialScope ==
    pc \in {"flatten", "parsed", "projected"} =>
        params = SequentialScope(PairsOfLines(ParamMatches(content)), EmptyScope)

\* line i of ls lies in the topology section: it is no marker line, a
\* topology marker line precedes it and no testbench marker line lies between
InSpan(ls, i) ==
    /\ ls[i] \notin {TopologyMarker[1], TestbenchMarker[1]}
    /\ \E j \in 1..(i - 1) :
        /\ ls[j] = TopologyMarker[1]
        /\ \A k \in (j + 1)..(i - 1) : ls[k] # TestbenchMarker[1]

\* the text holds the definition of sub1 (anywhere)
DefinesSub1(text) ==
    \E j \in 1..(Len(text) - 2) : SubSeq(text, j, j + 2) = Sub1Block

\* C14: in the web parser a top-level line outside the topology section
\* (before the first topology marker, after a testbench marker, or a marker
\* line itself) emits no component; inside the section a resistor statement
\* emits its component and an instantiation of sub1 is flattened whenever
\* sub1 is defined somewhere in the file.
C14_TopologySection ==
    [][(pc = "flatten" /\ idx <= Len(lines) /\ variant = "web") =>
        /\ ~InSpan(lines, idx) => flat_components' = flat_components
        /\ (InSpan(lines, idx) /\ lines[idx] = ResR1[1]) =>
            /\ Len(flat_components') = Len(flat_components) + 1
            /\ Last(flat_components').name = C_R1
        /\ (InSpan(lines, idx) /\ lines[idx] = InstALine /\ DefinesSub1(content)) =>
            AppendsOne(Name_xA_M1)]_vars

\* sub1 is defined after the testbench marker and its instantiation inside
\* the topology section has just been flattened
C14_Witness ==
    /\ variant = "web"
    /\ pc = "flatten"
    /\ idx > 1
    /\ lines[idx - 1] = InstALine
    /\ InSpan(lines, idx - 1)
    /\ \E j \in 1..(Len(content) - 3) :
        content[j] = TestbenchMarker[1] /\ SubSeq(content, j + 1, j + 3) = Sub1Block
    /\ flat_components # <<>>
    /\ Last(flat_components).name = Name_xA_M1

\* the names the text defines with a subckt line
DefinedNames(text) == {text[j][2] : j \in {k \in DOMAIN text : Len(text[k]) >= 2 /\ text[k][1] = W_subckt}}

\* line is an instantiation statement whose last token names no definition of text
IsUnknownInstance(line, text) ==
    /\ Len(line) >= 3
    /\ line[1][1] = "x"
    /\ line[Len(line)] \notin DefinedNames(text)

RECURSIVE WithoutUnknown(_, _)
\* the lines ls without the instantiations of subcircuits text does not define
WithoutUnknown(ls, text) ==
    IF ls = <<>> THEN <<>>
    ELSE (IF IsUnknownInstance(Head(ls), text) THEN <<>> ELSE <<Head(ls)>>)
         \o WithoutUnknown(Tail(ls), text)

\* C15: an instantiation whose last token names no extracted definition
\* emits no component and leaves the loop's state as it was (no error ends
\* the loop), and the file is parsed to the graph that the same file without
\* that line is parsed to.
C15_UnknownSubcircuit ==
    /\ [][(pc = "flatten" /\ idx <= Len(lines) /\ IsUnknownInstance(lines[idx], content)) =>
            /\ flat_components' = flat_components
            /\ in_topology' = in_topology
            /\ pc' = "flatten"]_vars
    /\ [](pc = "parsed" =>
            \E seed \in 0..MaxSeed :
                graph = parse_file(WithoutUnknown(content, content), variant, seed))

\* a file with an instantiation of an unknown subcircuit followed by a
\* statement that emitted a component has been parsed
C15_Witness ==
    /\ pc = "parsed"
    /\ \E j \in 1..(Len(content) - 1) :
        /\ IsUnknownInstance(content[j], content)
        /\ content[j + 1] = ResR1[1]
    /\ C_R1 \in Range(graph.components)

\* the loop is about to dispatch xC p1 p2 sub2 in a file that defines sub2,
\* whose body instantiates sub1, and sub1
AtInstC ==
    /\ pc = "flatten"
    /\ idx <= Len(lines)
    /\ lines[idx] = InstC[1]
    /\ variant = "web" => InSpan(lines, idx)
    /\ DefinesSub1(content)
    /\ \E j \in 1..(Len(content) - 3) : SubSeq(content, j, j + 3) = Sub2Block

\* C16: flattening expands one level: the instantiation xC of sub2, whose
\* body holds the resistor R2 and an instantiation xI of the defined
\* subcircuit sub1, emits the resistor xC_R2 on the nets of xC and no
\* component for xI (none of sub1's body).
C16_OneLevel ==
    [][AtInstC =>
        /\ Len(flat_components') = Len(flat_components) + 1
        /\ SubSeq(flat_components', 1, Len(flat_components)) = flat_components
        /\ Last(flat_components').name = <<"x", "C", "_", "R", "2">>
        /\ Last(flat_components').type = T_resistor
        /\ NetsOf(Last(flat_components')) = <<N_p1, N_p2>>]_vars

\* xC has just been flattened in a file that defines sub1 and sub2
C16_Witness ==
    /\ pc = "flatten"
    /\ idx > 1
    /\ lines[idx - 1] = InstC[1]
    /\ DefinesSub1(content)
    /\ S_sub2 \in DOMAIN subckts
    /\ flat_components # <<>>
    /\ Last(flat_components).name = <<"x", "C", "_", "R", "2">>
    /\ \A i \in DOMAIN flat_components : ~Contains(flat_components[i].name, C_M1)

\* the fixed role sequence of a component type
RolesOf(type) == IF type \in {T_nfet, T_pfet} THEN <<"D", "G", "S", "B">> ELSE <<"P", "N">>

\* position of the type keyword in the statement of the call
TypeAt == CHOOSE i \in DOMAIN call.line : call.line[i] \in {T_nfet, T_pfet, T_resistor, T_capacitor}

\* the net the i-th net token of the call's statement stands for: without
\* its parentheses, and remapped when it is a port of the port map
NetOfToken(i) ==
    LET n == SelectChars(call.line[i + 1], {"(", ")"})
    IN  IF n \in DOMAIN call.port_map THEN call.port_map[n] ELSE n

\* C17: the component _parse_component_line returns for a statement with n
\* net tokens has min(n, arity) terminals: the first roles of the type's
\* role sequence in order, the i-th on the i-th net token's (remapped) net.
C17_Terminals ==
    (pc = "returned" /\ call.fn = "parse_component_line"
        /\ \E i \in DOMAIN call.line : call.line[i] \in {T_nfet, T_pfet, T_resistor, T_capacitor}) =>
        /\ ret # None
        /\ LET n == TypeAt - 2
               roles == RolesOf(call.line[TypeAt])
           IN  /\ Len(ret.terminals) = (IF n < Len(roles) THEN n ELSE Len(roles))
               /\ \A i \in DOMAIN ret.terminals :
                    /\ ret.terminals[i].name = roles[i]
                    /\ ret.terminals[i].net = NetOfToken(i)

\* a fet with one net has one terminal; a resistor with three nets has two
C17_Witness ==
    /\ pc = "returned"
    /\ call.fn = "parse_component_line"
    /\ ret # None
    /\ \/ (ret.type = T_nfet /\ TypeAt = 3 /\ Len(ret.terminals) = 1)
       \/ (ret.type = T_resistor /\ TypeAt = 5 /\ Len(ret.terminals) = 2)

\* the supply-rail literals
SupplyLiterals == {<<"v", "d", "d", "!">>, N_gnd, L_0}

\* C18: a net is supply (code 0) exactly when its whole name is a supply
\* literal; 0_vbias, which only begins with one, is bias (code 1), vdd!_vin
\* is signal (code 2) and gnd!x is internal (code 3).
C18_SupplyExact ==
    pc = "parsed" =>
        \A k \in DOMAIN graph.nets :
            /\ graph.nets[k] \in SupplyLiterals => graph.net_feat[k] = 0
            /\ graph.net_feat[k] = 0 => LowerStr(graph.nets[k]) \in SupplyLiterals
            /\ graph.nets[k] = N_0_vbias => graph.net_feat[k] = 1
            /\ graph.nets[k] = N_vdd_vin => graph.net_feat[k] = 2
            /\ graph.nets[k] = N_gndx => graph.net_feat[k] = 3

\* the statement of the call assigns key in its parameter span
Assigned(key) ==
    \E k \in DOMAIN ParamSpan(call.line) : StartsWith(ParamSpan(call.line)[k], Assign(key, <<>>))

\* the resolved values of the assignments to key of the call's statement
AssignedValues(key) ==
    {parse_value(Str(DropN(ParamSpan(call.line)[k], Len(key) + 1)), call.params, variant) :
        k \in {j \in DOMAIN ParamSpan(call.line) :
                StartsWith(ParamSpan(call.line)[j], Assign(key, <<>>))}}

\* the field is taken from the named assignment when there is one, and from
\* the first unnamed token that resolves to a positive number otherwise
NamedElsePositional(field, key, alt) ==
    IF Assigned(key) \/ Assigned(alt)
    THEN field \in AssignedValues(key) \cup AssignedValues(alt) \cup {Zero}
    ELSE field = find_positional_val(ParamSpan(call.line), call.params, variant)

\* C19: (web parser) a resistor without a named r or nR takes its resistance
\* from the first unnamed token of the parameter span that resolves to a
\* positive number; a resistor with a named r or nR, also one whose value
\* spans several tokens, never takes it from an unnamed token.  Likewise a
\* capacitor with c and nC.
C19_PositionalFallback ==
    (pc = "returned" /\ call.fn = "parse_component_line" /\ variant = "web" /\ ret # None) =>
        /\ call.line[4] = T_resistor => NamedElsePositional(ret.params.r, K_r, K_nR)
        /\ call.line[4] = T_capacitor => NamedElsePositional(ret.params.c, K_c, K_nC)

\* the field follows the chain: the value of first when first is assigned,
\* otherwise that of second when second is assigned
FollowsChain(field, first, second) ==
    /\ Assigned(first) => field \in AssignedValues(first)
    /\ (~Assigned(first) /\ Assigned(second)) => field \in AssignedValues(second)

\* C20: in a statement whose parameter span holds assignments only, nfin is
\* the value of nfin when nfin is assigned and otherwise that of w,
\* resistance the value of nR when nR is assigned and otherwise that of r,
\* capacitance likewise with nC and c; the second name is not consulted when
\* the first is assigned and resolves to 0.
C20_FallbackChains ==
    (pc = "returned" /\ call.fn = "parse_component_line" /\ ret # None
        /\ \A k \in DOMAIN ParamSpan(call.line) : HasChar(ParamSpan(call.line)[k], "=")) =>
        /\ FollowsChain(ret.params.nfin, K_nfin, K_w)
        /\ FollowsChain(ret.params.r, K_nR, K_r)
        /\ FollowsChain(ret.params.c, K_nC, K_c)

\* the call's statement is a source statement
IsSourceCall ==
    /\ call.fn = "parse_component_line"
    /\ \E i \in DOMAIN call.line : call.line[i] \in {T_vsource, T_isource, T_vcvs}

\* position of the type keyword in the source statement of the call
SourceAt == CHOOSE i \in DOMAIN call.line : call.line[i] \in {T_vsource, T_isource, T_vcvs}

\* the fixed role sequence of a source type
SourceRoles(type) ==
    IF type = T_vcvs THEN <<"pos", "neg", "ctrl_pos", "ctrl_neg">> ELSE <<"pos", "neg">>

\* the returned component carries the source's type and its roles, bound in
\* order to the statement's net tokens
IsSourceComponent ==
    /\ ret # None
    /\ ret.type = call.line[SourceAt]
    /\ LET n == SourceAt - 2
           roles == SourceRoles(call.line[SourceAt])
       IN  /\ Len(ret.terminals) = (IF n < Len(roles) THEN n ELSE Len(roles))
           /\ \A i \in DOMAIN ret.terminals :
                /\ ret.terminals[i].name = roles[i]
                /\ ret.terminals[i].net = NetOfToken(i)

\* C21 as stated: a vsource or isource statement yields a component with
\* the terminals (pos, neg), a vcvs statement one with (pos, neg, ctrl_pos,
\* ctrl_neg), bound positionally to its net tokens, in either parser.
C21_SourcesEmitted ==
    (pc = "returned" /\ IsSourceCall) => IsSourceComponent

\* C21 amended: the conversion_scripts parser yields that component; the
\* web parser yields no component for a source statement.
C21_SourcesByParser ==
    (pc = "returned" /\ IsSourceCall) =>
        /\ variant = "conv" => IsSourceComponent
        /\ variant = "web" => ret = None

\* the conversion_scripts parser has returned a vcvs on four nets
C21_Witness ==
    /\ pc = "returned"
    /\ variant = "conv"
    /\ IsSourceCall
    /\ ret # None
    /\ ret.type = T_vcvs
    /\ Len(ret.terminals) = 4
    /\ ret.terminals[3].name = "ctrl_pos"

\* the steps that are a call of reconstruct_circuit: the first call and the
\* second
IsProjectionCall ==
    \/ pc = "parsed" /\ pc' = "projected"
    \/ pc = "projected" /\ pc' = "reprojected"

BoundNet(ports, args, n) ==
    LET bound == {k \in DOMAIN ports \cap DOMAIN args : ports[k] = n}
    IN  IF bound = {} THEN n ELSE args[CHOOSE k \in bound : \A l \in bound : l <= k]

\* the loop is about to dispatch an instantiation of sub3, defined with the
\* ports (pa pb) and the body M1 pa mid pb nfet
AtInstSub3 ==
    /\ pc = "flatten"
    /\ idx <= Len(lines)
    /\ Len(lines[idx]) >= 3
    /\ StartsWith(lines[idx][1], <<"x">>)
    /\ Last(lines[idx]) = S_sub3
    /\ S_sub3 \in DOMAIN subckts
    /\ variant = "web" => in_topology

\* the edge of terminal j of the component at position i
EdgeOf(i, j) == graph.edge_index[TerminalsBefore(flat_components, i) + j]

\* C23: flattening qualifies the component name with the instance name and
\* no net name: a body name that is a port with an argument becomes that
\* argument, every other body name (the internal net mid, the port pb of an
\* instantiation with one argument) is used verbatim; in the graph every net
\* name is one node, and all the terminals that use the name, of whatever
\* instance or top-level statement, have their edge on that node
C23_SharedNets ==
    /\ [][AtInstSub3 =>
            /\ Len(flat_components') = Len(flat_components) + 1
            /\ SubSeq(flat_components', 1, Len(flat_components)) = flat_components
            /\ Last(flat_components').name = lines[idx][1] \o <<"_">> \o C_M1
            /\ NetsOf(Last(flat_components')) =
                   [k \in 1..3 |-> BoundNet(<<N_pa, N_pb>>,
                                            SubSeq(lines[idx], 2, Len(lines[idx]) - 1),
                                            <<N_pa, N_mid, N_pb>>[k])]]_vars
    /\ [](pc = "parsed" =>
            /\ Range(graph.nets) \subseteq {N_p1, N_p2, N_mid, N_pb}
            /\ \A k, l \in DOMAIN graph.nets : graph.nets[k] = graph.nets[l] => k = l
            /\ \A i, i2 \in DOMAIN flat_components :
                 \A j \in DOMAIN flat_components[i].terminals :
                     /\ graph.nets[EdgeOf(i, j)[2] + 1] = flat_components[i].terminals[j].net
                     /\ \A j2 \in DOMAIN flat_components[i2].terminals :
                          flat_components[i].terminals[j].net = flat_components[i2].terminals[j2].net
                              => EdgeOf(i, j)[2] = EdgeOf(i2, j2)[2])

\* the graph of a netlist with two instantiations of sub3, one of them with one
\* argument, and a top-level statement on mid and pb: the three components
\* meet on the node mid, and the second instance and the statement on the
\* node pb
C23_Witness ==
    /\ pc = "parsed"
    /\ Len(flat_components) = 3
    /\ {flat_components[i].name : i \in DOMAIN flat_components} =
           {C_xD \o <<"_">> \o C_M1, C_xE \o <<"_">> \o C_M1, C_R1}
    /\ \A i \in DOMAIN flat_components : N_mid \in Range(NetsOf(flat_components[i]))
    /\ Cardinality({i \in DOMAIN flat_components : N_pb \in Range(NetsOf(flat_components[i]))}) = 2
    /\ Cardinality({k \in DOMAIN graph.nets : graph.nets[k] = N_mid}) = 1
    /\ Cardinality({k \in DOMAIN graph.edge_index :
                        graph.nets[graph.edge_index[k][2] + 1] = N_mid}) = 3

=============================================================================
